---- MODULE Spec2Model ----
(***************************************************************************)
(* Model of the query pipeline of the analytics backend: the SQL safety    *)
(* validator (sql_utils.py), the query execution services (services.py)    *)
(* and the routers that call them (routers/query.py, routers/dashboard.py).*)
(*                                                                         *)
(* Text is modelled as a sequence of lexemes (tokens).  Every token is     *)
(* either made of word characters only (a keyword, an identifier, a        *)
(* number) or is one non-word lexeme (" ", ";", ",").  The text a sequence *)
(* stands for is the concatenation of its tokens.  No token of the         *)
(* alphabets used below is, or spans with its neighbours, another keyword, *)
(* so the regular expressions of the validator are decided token-wise.     *)
(***************************************************************************)
EXTENDS Integers, Sequences, FiniteSets, TLC

VARIABLES pc, req, executed, validated, rejected, resp, loaded, target_table,
          clock, request_counts, failed_attempts, blocked_ips, streak

\* the state of the security middleware, kept from request to request
middleware_vars == <<clock, request_counts, failed_attempts, blocked_ips, streak>>

vars == <<pc, req, executed, validated, rejected, resp, loaded, target_table,
          middleware_vars>>

-----------------------------------------------------------------------------
(* Bounds *)

\* longest SQL text (in tokens) enumerated on the validation paths
MaxLen == 4

\* largest number of rows of a source query
MaxRows == 3

-----------------------------------------------------------------------------
(* Text primitives (Python str methods at token level) *)

Whitespace == {" "}

\* tokens that are not made of word characters (regex \W)
NonWordTokens ==
    {" ", ";", ",", "--", "/*", "*/", "(", ")", "'", "=", ".", "*", "!=", ">",
     "<", ">=", "<=", "%", "||", "[", "]", "\"", "-"}

IsWordToken(t) == t \notin NonWordTokens

\* str.lower()
Lower(t) ==
    CASE t = "SELECT" -> "select"
      [] t = "Select" -> "select"
      [] t = "DROP" -> "drop"
      [] t = "Update" -> "update"
      [] t = "UPDATE" -> "update"
      [] t = "X" -> "x"
      [] t = "EQ" -> "eq"
      [] t = "IN" -> "in"
      [] t = "LIKE" -> "like"
      [] t = "FROM" -> "from"
      [] t = "WHERE" -> "where"
      [] t = "XLSX" -> "xlsx"
      [] t = "ID" -> "id"
      [] t = "Name" -> "name"
      [] t = "/Auth/Login" -> "/auth/login"
      [] OTHER -> t

\* str.upper()
Upper(t) ==
    CASE t = "ceo" -> "CEO"
      [] t = "Ceo" -> "CEO"
      [] t = "finance_user" -> "FINANCE_USER"
      [] t = "user" -> "USER"
      [] t = "admin" -> "ADMIN"
      [] t = "Admin" -> "ADMIN"
      [] t = "select" -> "SELECT"
      [] t = "Select" -> "SELECT"
      [] t = "where" -> "WHERE"
      [] t = "desc" -> "DESC"
      [] t = "nowhere" -> "NOWHERE"
      [] OTHER -> t

LowerText(s) == [i \in 1..Len(s) |-> Lower(s[i])]

UpperText(s) == [i \in 1..Len(s) |-> Upper(s[i])]

RECURSIVE LStrip(_)
\* str.lstrip(): drop leading whitespace
LStrip(s) == IF s # <<>> /\ Head(s) \in Whitespace THEN LStrip(Tail(s)) ELSE s

RECURSIVE RStrip(_)
\* str.rstrip(): drop trailing whitespace
RStrip(s) ==
    IF s # <<>> /\ s[Len(s)] \in Whitespace
    THEN RStrip(SubSeq(s, 1, Len(s) - 1))
    ELSE s

\* str.strip()
Strip(s) == LStrip(RStrip(s))

RECURSIVE RStripSemi(_)
\* str.rstrip(";"): drop every trailing ";"
RStripSemi(s) ==
    IF s # <<>> /\ s[Len(s)] = ";"
    THEN RStripSemi(SubSeq(s, 1, Len(s) - 1))
    ELSE s

\* membership of a token in a text ("tok" in text)
Has(s, t) == \E i \in 1..Len(s) : s[i] = t

\* the upper-cased tokens in which the characters WHERE occur
WhereBearing == {"WHERE", "NOWHERE"}

\* "WHERE" in text.upper(): a test of substrings, not of words
HasWhere(s) == \E i \in 1..Len(s) : Upper(s[i]) \in WhereBearing

RECURSIVE CharLen(_)
\* len(str): number of characters of the text
CharLen(s) == IF s = <<>> THEN 0 ELSE Len(Head(s)) + CharLen(Tail(s))

-----------------------------------------------------------------------------
(* Regular expressions (re.search) at token level.  A pattern is a sequence *)
(* of elements: one token of a set, a repetition of it, or the word        *)
(* boundary \b that follows a word.                                        *)

One(S) == [q |-> "one", set |-> S]

Star(S) == [q |-> "star", set |-> S]

Plus(S) == [q |-> "plus", set |-> S]

Opt(S) == [q |-> "opt", set |-> S]

WordEnd == [q |-> "wordend", set |-> {}]

RECURSIVE MatchFrom(_, _, _)
\* the pattern matches a stretch of the text that starts at position i
MatchFrom(s, i, pat) ==
    IF pat = <<>> THEN TRUE
    ELSE LET p == Head(pat)
             rest == Tail(pat)
             here == i <= Len(s) /\ s[i] \in p.set
         IN CASE p.q = "one" -> here /\ MatchFrom(s, i + 1, rest)
              [] p.q = "star" ->
                    MatchFrom(s, i, rest) \/ (here /\ MatchFrom(s, i + 1, pat))
              [] p.q = "plus" ->
                    here /\ MatchFrom(s, i + 1, <<Star(p.set)>> \o rest)
              [] p.q = "opt" ->
                    MatchFrom(s, i, rest) \/ (here /\ MatchFrom(s, i + 1, rest))
              [] p.q = "wordend" ->
                    (i > Len(s) \/ ~IsWordToken(s[i])) /\ MatchFrom(s, i, rest)

\* re.search(pattern, text)
Search(s, pat) == \E i \in 1..(Len(s) + 1) : MatchFrom(s, i, pat)

Digits == {"0", "1", "2"}

Quote == {"'"}

-----------------------------------------------------------------------------
(* SQL safety validator: sql_utils.py *)

\* keyword\b entries of _FORBIDDEN_TOKENS
ForbiddenWords ==
    {"drop", "delete", "truncate", "insert", "update", "alter", "create",
     "grant", "revoke", "union", "exec", "execute", "declare", "waitfor",
     "benchmark"}

\* name\s*\( entries of _FORBIDDEN_TOKENS
ForbiddenFunctions ==
    {"char", "ascii", "substring", "concat", "cast", "convert", "sleep",
     "pg_sleep"}

\* words matched by sp_\w+, xp_\w+, @@\w+, dbms_\w+, utl_\w+
ForbiddenPrefixed ==
    {"sp_who", "xp_cmdshell", "@@version", "dbms_lock", "utl_http"}

_FORBIDDEN_TOKENS ==
    {<<One({";"})>>, <<One({"--"})>>, <<One({"/*"})>>, <<One({"*/"})>>}
    \cup {<<One({w}), WordEnd>> : w \in ForbiddenWords}
    \cup {<<One({f}), Star(Whitespace), One({"("})>> : f \in ForbiddenFunctions}
    \cup {<<One(ForbiddenPrefixed)>>}
    \cup {<<One(Quote), Star(Whitespace), One({"or"}), Star(Whitespace),
            One(Quote), Plus(Digits), One(Quote), Star(Whitespace), One({"="}),
            Star(Whitespace), One(Quote), Plus(Digits), Opt(Quote)>>,
          <<Plus(Whitespace), One({"or"}), Plus(Whitespace), Plus(Digits),
            Star(Whitespace), One({"="}), Star(Whitespace), Plus(Digits)>>,
          <<One({"or"}), Star(Whitespace), One(Quote), Plus(Digits), One(Quote),
            Star(Whitespace), One({"="}), Star(Whitespace), One(Quote),
            Plus(Digits), Opt(Quote)>>,
          <<One(Quote), Star(Whitespace), One({"or"}), Star(Whitespace),
            Plus(Digits), Star(Whitespace), One({"="}), Star(Whitespace),
            Plus(Digits)>>}

\* faulty variant of _FORBIDDEN_PATTERN: the statement separator is missing
\* from the forbidden tokens
_FORBIDDEN_PATTERN_without_separator(s) ==
    \E pat \in _FORBIDDEN_TOKENS \ {<<One({";"})>>} : Search(s, pat)

\* _FORBIDDEN_PATTERN.search(text)
_FORBIDDEN_PATTERN(s) == \E pat \in _FORBIDDEN_TOKENS : Search(s, pat)

\* str.startswith("select")
StartsWithSelect(s) == s # <<>> /\ Head(s) = "select"

\* faulty variant of is_safe_sql: the test of the select prefix is left out
is_safe_sql_without_prefix_test(sql) ==
    LET stripped == LowerText(Strip(sql))
    IN ~_FORBIDDEN_PATTERN(stripped)

is_safe_sql(sql) ==
    LET stripped == LowerText(Strip(sql))
    IN IF ~StartsWithSelect(stripped) THEN FALSE
       ELSE IF _FORBIDDEN_PATTERN(stripped) THEN FALSE
       ELSE TRUE

\* injection_patterns of validate_sql
injection_patterns ==
    {<<One(Quote), Star(Whitespace), One({"or"}), Plus(Whitespace), One(Quote),
       Plus(Digits), One(Quote), Star(Whitespace), One({"="}), Star(Whitespace),
       One(Quote), Plus(Digits), One(Quote)>>,
     <<One(Quote), Star(Whitespace), One({"or"}), Plus(Whitespace),
       Plus(Digits), Star(Whitespace), One({"="}), Star(Whitespace),
       Plus(Digits)>>,
     <<One(Quote), Star(Whitespace), One({"and"}), Plus(Whitespace), One(Quote),
       Plus(Digits), One(Quote), Star(Whitespace), One({"="}), Star(Whitespace),
       One(Quote), Plus(Digits), One(Quote)>>,
     <<One(Quote), Star(Whitespace), One({";"}), Star(Whitespace),
       One({"select"}), Plus(Whitespace)>>,
     <<One(Quote), Star(Whitespace), One({"union"}), Plus(Whitespace),
       One({"all"}), Plus(Whitespace), One({"select"}), Plus(Whitespace)>>,
     <<One({"information_schema"}), One({"."})>>,
     <<One({"sys"}), One({"."})>>,
     <<One({"dual"}), Plus(Whitespace), One({"where"})>>,
     <<One({"from"}), Plus(Whitespace), One({"dual"}), Plus(Whitespace),
       One({"where"})>>}

\* 10KB limit of validate_sql
MaxSqlChars == 10000

DetailUnsafe == "Unsafe SQL detected. Only read-only SELECT queries are permitted."

DetailInjection == "Potential SQL injection detected. Query rejected."

DetailTooLong == "Query too long. Maximum length is 10,000 characters."

\* validate_sql: "ok", or the detail of the HTTPException (400) it raises
validate_sql(sql) ==
    LET sql_lower == Strip(LowerText(sql))
    IN IF ~is_safe_sql(sql) THEN DetailUnsafe
       ELSE IF \E pat \in injection_patterns : Search(sql_lower, pat)
            THEN DetailInjection
       ELSE IF CharLen(sql) > MaxSqlChars THEN DetailTooLong
       ELSE "ok"

-----------------------------------------------------------------------------
(* Optional values (Python None): the empty set is None, {v} is the value v *)

None == {}

Some(v) == {v}

ValueOf(o) == CHOOSE v \in o : TRUE

-----------------------------------------------------------------------------
(* Role sets: roles_utils.py and the role checks of the routers *)

RECURSIVE SplitComma(_)
\* str.split(","): the sequence of the parts between the commas
SplitComma(s) ==
    IF ~Has(s, ",") THEN <<s>>
    ELSE LET i == CHOOSE k \in 1..Len(s) :
                     s[k] = "," /\ \A j \in 1..(k - 1) : s[j] # ","
         IN <<SubSeq(s, 1, i - 1)>> \o SplitComma(SubSeq(s, i + 1, Len(s)))

\* the range of a sequence
Range(f) == {f[i] : i \in 1..Len(f)}

\* is_admin(role)
is_admin(role) ==
    IF role = <<>> THEN FALSE
    ELSE LET normalized == UpperText(role)
             roles == {Strip(r) : r \in Range(SplitComma(normalized))}
         IN <<"ADMIN">> \in roles

\* {r.strip().upper() for r in (query_obj.role or "").split(",") if r.strip()}
assigned_roles(role) ==
    {UpperText(Strip(r)) : r \in {x \in Range(SplitComma(role)) : Strip(x) # <<>>}}

\* the role check the query router repeats in every handler that has one:
\* TRUE when the handler raises 403
role_denied(user_role, query_role) ==
    IF ~is_admin(user_role)
    THEN assigned_roles(query_role) # {}
         /\ UpperText(user_role) \notin assigned_roles(query_role)
    ELSE FALSE

-----------------------------------------------------------------------------
(* The database executor (db_manager) as the services see it: a statement  *)
(* either returns the rows of its query or raises.                         *)

Timeout == [type |-> "TimeoutError", text |-> <<"call timeout exceeded">>]

Ora00907 ==
    [type |-> "DatabaseError",
     text |-> <<"ORA-00907", ": ", "missing right parenthesis">>]

Ora00942 ==
    [type |-> "DatabaseError",
     text |-> <<"ORA-00942", ": ", "table or view does not exist">>]

Ora00904 ==
    [type |-> "DatabaseError",
     text |-> <<"ORA-00904", ": ", "invalid identifier">>]

Ora01722 ==
    [type |-> "DatabaseError", text |-> <<"ORA-01722", ": ", "invalid number">>]

\* what a statement can raise
DbErrors == {Timeout, Ora00907, Ora00942, Ora00904, Ora01722}

\* int + None in the f-string of the paged query
TypeErrorExc ==
    [type |-> "TypeError",
     text |-> <<"unsupported operand type(s) for +: 'NoneType' and 'int'">>]

\* count_result read in the handler of the exception that left it unassigned
UnboundLocalErrorExc ==
    [type |-> "UnboundLocalError",
     text |-> <<"cannot access local variable 'count_result'">>]

\* a statement handed to the executor: kind, the query text it embeds (sql),
\* the stored or ad-hoc query text that text was built from (base), the row
\* bounds of the paging wrapper, and how the executor answered
\* (raised is None when it returned, the exception when it raised)
Stmt(kind, sql, hi, lo, raised) ==
    [kind |-> kind, base |-> sql, sql |-> sql, hi |-> hi, lo |-> lo,
     outcome |-> IF raised = None THEN "ok" ELSE ValueOf(raised).type]

\* a Python value of a cell or of a request: an int (by its digits), a str
\* (by its text), a float (by the text str() gives it) or None
Num(n) == [t |-> "num", v |-> <<ToString(n)>>]

StrVal(s) == [t |-> "str", v |-> s]

Float(digits) == [t |-> "float", v |-> digits \o <<".", "0">>]

Null == [t |-> "null", v |-> <<"None">>]

\* the rows of a query: one column, n rows, row i holds the number i
Source(n) == [cols |-> <<"ID">>, rows |-> [i \in 1..n |-> <<Num(i)>>]]

\* faulty variant of paginated_query: the outer filter is rnum >= lo
paginated_query_off_by_one(src, hi, lo) ==
    LET numbered == [i \in 1..Len(src.rows) |-> src.rows[i] \o <<i>>]
        inner == SelectSeq(numbered, LAMBDA r : r[Len(r)] <= hi)
        outer == SelectSeq(inner, LAMBDA r : r[Len(r)] >= lo)
    IN [cols |-> src.cols \o <<"RNUM">>, rows |-> outer]

\* SELECT * FROM (SELECT a.*, ROWNUM rnum FROM (query) a WHERE ROWNUM <= hi)
\* WHERE rnum > lo, as the database evaluates it over the rows of the query
paginated_query(src, hi, lo) ==
    LET numbered == [i \in 1..Len(src.rows) |-> src.rows[i] \o <<i>>]
        inner == SelectSeq(numbered, LAMBDA r : r[Len(r)] <= hi)
        outer == SelectSeq(inner, LAMBDA r : r[Len(r)] > lo)
    IN [cols |-> src.cols \o <<"RNUM">>, rows |-> outer]

\* SELECT * FROM (query) WHERE 1=0
structure_query(src) == [cols |-> src.cols, rows |-> <<>>]

\* SELECT COUNT(*) as total_count FROM (query) sub
count_query(src) == Len(src.rows)

-----------------------------------------------------------------------------
(* DataFrame operations *)

\* df.empty
DfEmpty(df) == Len(df.rows) = 0 \/ Len(df.cols) = 0

RECURSIVE KeepIndices(_, _, _)
KeepIndices(s, keep, i) ==
    IF i > Len(s) THEN <<>>
    ELSE (IF i \in keep THEN <<s[i]>> ELSE <<>>) \o KeepIndices(s, keep, i + 1)

\* df.drop(columns=[name], inplace=True)
DropColumn(df, name) ==
    LET keep == {i \in 1..Len(df.cols) : df.cols[i] # name}
    IN [cols |-> KeepIndices(df.cols, keep, 1),
        rows |-> [r \in 1..Len(df.rows) |-> KeepIndices(df.rows[r], keep, 1)]]

\* the removal of the row-number column from a page
drop_rnum(df) ==
    IF ~DfEmpty(df) /\ "RNUM" \in Range(df.cols) THEN DropColumn(df, "RNUM")
    ELSE IF ~DfEmpty(df) /\ "rnum" \in Range(df.cols) THEN DropColumn(df, "rnum")
    ELSE df

\* faulty variant of column_structure: the zero-row variant is never consulted
column_structure_skipped(df, src, fault) == df

\* the header lookup of an empty page: df becomes an empty frame with the
\* columns of SELECT * FROM (query) WHERE 1=0 when that statement returns at
\* least one column; when it raises, the exception is logged and df is kept
column_structure(df, src, fault) ==
    IF DfEmpty(df) /\ fault.structure = None
       /\ Len(structure_query(src).cols) > 0
    THEN [cols |-> structure_query(src).cols, rows |-> <<>>]
    ELSE df

-----------------------------------------------------------------------------
(* QueryResult, TableData, ChartData: models.py *)

TableData(columns, data, total_count) ==
    [type |-> "TableData", columns |-> columns, data |-> data,
     total_count |-> total_count]

ChartData(labels, datasets) ==
    [type |-> "ChartData", labels |-> labels, datasets |-> datasets]

\* faulty variant of QueryResult: the error field defaults to "" instead of None
QueryResult_with_empty_error(success, data, error) ==
    [kind |-> "QueryResult", success |-> success, data |-> data,
     error |-> IF error = None THEN Some(<<>>) ELSE error, status |-> 200]

\* QueryResult(success=..., data=..., error=...): the fields left out are None
QueryResult(success, data, error) ==
    [kind |-> "QueryResult", success |-> success, data |-> data,
     error |-> error, status |-> 200]

\* raise HTTPException(status_code, detail)
HTTPException(status, detail) ==
    [kind |-> "HTTPException", success |-> FALSE, data |-> None,
     error |-> Some(<<detail>>), status |-> status]

MsgGeneric == <<"Query execution failed. Please check your SQL syntax and try again.">>

MsgSyntax == <<"SQL syntax error: Please check your query syntax.">>

MsgTable == <<"Table or view not found. Please verify the table name.">>

MsgColumn == <<"Column not found. Please verify the column names.">>

MsgNoData == <<"Query returned no data">>

\* the message of the except TimeoutError branch of execute_query_for_chart
MsgTimeoutChart(timeout) ==
    <<"Query timed out after ", ToString(timeout),
      " seconds. Try reducing data range or complexity.">>

\* the message of the except TimeoutError branch of execute_query_for_table
MsgTimeoutTable(timeout) ==
    <<"Query timed out after ", ToString(timeout),
      " seconds. Try reducing data range or adding more specific filters.">>

\* the mapping of an exception to a user message in the except Exception
\* branches (sniffing of str(e))
error_msg(e) ==
    IF Has(e.text, "ORA-00907") \/ Has(e.text, "ORA-00936")
       \/ Has(e.text, "missing right parenthesis")
    THEN MsgSyntax
    ELSE IF Has(e.text, "ORA-00942") \/ Has(e.text, "table or view does not exist")
    THEN MsgTable
    ELSE IF Has(e.text, "ORA-00904") \/ Has(e.text, "invalid identifier")
    THEN MsgColumn
    ELSE MsgGeneric

\* default timeout of the executing services
DefaultTimeout == 45

-----------------------------------------------------------------------------
(* DataService: services.py.  Each operator returns the statements the     *)
(* call hands to the executor, in order, and the QueryResult it returns.   *)
(* src is what the database holds for the query, fault says which          *)
(* statement kinds raise (None: the statement returns).                    *)

\* str(value) of a cell
Str(v) == v.v

\* the texts float() and pd.to_numeric read as a number
NumericTexts == {<<"0">>, <<"1">>, <<"2">>, <<"3">>, <<"7">>, <<"42">>}

\* float(value): the float, or the exception raised (TypeError on None,
\* ValueError on a text that is not a number)
PyFloat(value) ==
    IF value.t = "float" THEN [raised |-> None, value |-> value]
    ELSE IF value.t = "num" THEN [raised |-> None, value |-> Float(value.v)]
    ELSE IF value.t = "null" THEN [raised |-> Some("TypeError"), value |-> Null]
    ELSE IF Strip(value.v) \in NumericTexts
    THEN [raised |-> None, value |-> Float(Strip(value.v))]
    ELSE [raised |-> Some("ValueError"), value |-> Null]

\* faulty variant of kpi_value: the first value is passed on as it is
kpi_value_uncoerced(first_val) == first_val

\* num_val of the KPI shaping: float(first_val), or 0 when float() raises
\* TypeError or ValueError
kpi_value(first_val) ==
    IF PyFloat(first_val).raised = None THEN PyFloat(first_val).value ELSE Num(0)

\* pd.to_numeric(column, errors="coerce").fillna(0) of one cell: what is not
\* a number becomes NaN and then 0
to_numeric(value) ==
    IF value.t \in {"num", "float"} THEN value
    ELSE IF value.t = "str" /\ Strip(value.v) \in NumericTexts
    THEN [t |-> "num", v |-> Strip(value.v)]
    ELSE Float(<<"0">>)

base_colors ==
    <<"#FF6384", "#36A2EB", "#FFCE56", "#4BC0C0", "#9966FF", "#FF9F40", "#FF6384",
      "#C9CBCF", "#4BC0C0", "#FF6384">>

\* _generate_colors(count)
_generate_colors(count) ==
    [i \in 1..count |-> base_colors[((i - 1) % Len(base_colors)) + 1]]

\* str(col).strip() or f"Series {i+1}" of a column name
safe_label(col, i) == IF col \in {"", " "} THEN "Series " \o ToString(i) ELSE col

\* _format_chart_data(df, chart_type)
_format_chart_data(df, chart_type) ==
    LET n == Len(df.rows)
        ncols == Len(df.cols)
        values(c) == [r \in 1..n |-> to_numeric(df.rows[r][c])]
        labels0 == [r \in 1..n |-> Str(df.rows[r][1])]
        colors == _generate_colors(ncols - 1)
    IN IF chart_type \in {Some("pie"), Some("doughnut")}
       THEN IF ncols >= 2
            THEN ChartData(labels0,
                           <<[data |-> values(2),
                              backgroundColor |-> _generate_colors(n)]>>)
            ELSE ChartData([r \in 1..n |-> <<ToString(r - 1)>>],
                           <<[data |-> values(1),
                              backgroundColor |-> _generate_colors(n)]>>)
       ELSE IF chart_type \in {Some("bar"), Some("line")}
       THEN ChartData(labels0,
                      [c \in 1..(ncols - 1) |->
                          [label |-> safe_label(df.cols[c + 1], c),
                           data |-> values(c + 1),
                           borderColor |-> colors[((c - 1) % Len(colors)) + 1]]])
       ELSE ChartData(labels0,
                      <<[label |-> IF ncols > 1 /\ df.cols[2] \notin {"", " "}
                                   THEN df.cols[2] ELSE "Value",
                         data |-> IF ncols > 1 THEN values(2) ELSE <<>>,
                         backgroundColor |-> _generate_colors(1)[1]]>>)

execute_query_for_chart(query, chart_type, timeout, src, fault) ==
    LET stmt == Stmt("direct", query, 0, 0, fault.direct)
        df == src
    IN IF fault.direct # None
       THEN [log |-> <<stmt>>,
             result |-> IF ValueOf(fault.direct).type = "TimeoutError"
                        THEN QueryResult(FALSE, None, Some(MsgTimeoutChart(timeout)))
                        ELSE QueryResult(FALSE, None, Some(error_msg(ValueOf(fault.direct))))]
       ELSE IF DfEmpty(df)
       THEN [log |-> <<stmt>>, result |-> QueryResult(FALSE, None, Some(MsgNoData))]
       ELSE IF chart_type = Some("kpi")
       THEN [log |-> <<stmt>>,
             result |-> QueryResult(TRUE, Some(ChartData(<<"KPI">>,
                                          <<[data |-> <<kpi_value(df.rows[1][1])>>]>>)), None)]
       ELSE [log |-> <<stmt>>,
             result |-> QueryResult(TRUE, Some(_format_chart_data(df, chart_type)), None)]

execute_query_for_table(query, limit, offset, timeout, src, fault) ==
    IF limit = None \/ offset = None
    THEN [log |-> <<>>, result |-> QueryResult(FALSE, None, Some(error_msg(TypeErrorExc)))]
    ELSE
    LET hi == ValueOf(limit) + ValueOf(offset)
        lo == ValueOf(offset)
        page == Stmt("page", query, hi, lo, fault.page)
        df1 == drop_rnum(paginated_query(src, hi, lo))
        structure == Stmt("structure", query, 0, 0, fault.structure)
        df2 == column_structure(df1, src, fault)
        count == Stmt("count", query, 0, 0, fault.count)
        log == <<page>> \o (IF DfEmpty(df1) THEN <<structure>> ELSE <<>>)
                        \o <<count>>
    IN IF fault.page # None
       THEN [log |-> <<page>>,
             result |-> IF ValueOf(fault.page).type = "TimeoutError"
                        THEN QueryResult(FALSE, None, Some(MsgTimeoutTable(timeout)))
                        ELSE QueryResult(FALSE, None, Some(error_msg(ValueOf(fault.page))))]
       ELSE IF fault.count = None
       THEN [log |-> log,
             result |-> QueryResult(TRUE, Some(TableData(df2.cols, df2.rows, count_query(src))), None)]
       ELSE IF ValueOf(fault.count).type = "TimeoutError"
       THEN [log |-> log,
             result |-> QueryResult(TRUE, Some(TableData(df2.cols, df2.rows,
                                          Len(df2.rows) + lo)), None)]
       ELSE [log |-> log, result |-> QueryResult(FALSE, None, Some(error_msg(UnboundLocalErrorExc)))]

-----------------------------------------------------------------------------
(* Filter compiler: DataService.apply_filters and sql_utils.escape_literal *)

\* a filter value: a number, a string (text) or a list of such values
ListVal(l) == [t |-> "list", v |-> l]

RECURSIVE DoubleQuotes(_)
\* value.replace("'", "''")
DoubleQuotes(s) ==
    IF s = <<>> THEN <<>>
    ELSE (IF Head(s) = "'" THEN <<"'", "'">> ELSE <<Head(s)>>)
         \o DoubleQuotes(Tail(s))

\* faulty variant of escape_literal: the embedded quotes are not doubled
escape_literal_without_doubling(value) == <<"'">> \o value \o <<"'">>

\* escape_literal(value): "'" + value.replace("'", "''") + "'"
escape_literal(value) == <<"'">> \o DoubleQuotes(value) \o <<"'">>

RECURSIVE JoinTexts(_, _)
\* sep.join(texts)
JoinTexts(texts, sep) ==
    IF texts = <<>> THEN <<>>
    ELSE IF Len(texts) = 1 THEN texts[1]
    ELSE texts[1] \o sep \o JoinTexts(Tail(texts), sep)

\* repr(x) of an item of a list: a number as its digits, a string between
\* single quotes, or between double quotes when it holds a single quote
PyRepr(x) ==
    IF x.t = "num" THEN x.v
    ELSE IF Has(x.v, "'") THEN <<"\"">> \o x.v \o <<"\"">>
    ELSE <<"'">> \o x.v \o <<"'">>

\* str(val)
PyStr(val) ==
    IF val.t = "list"
    THEN <<"[">> \o JoinTexts([i \in 1..Len(val.v) |-> PyRepr(val.v[i])],
                              <<",", " ">>) \o <<"]">>
    ELSE val.v

\* _as_sql_literal(val), as it is interpolated into the f-string
_as_sql_literal(val) == IF val.t = "num" THEN val.v ELSE escape_literal(PyStr(val))

\* the comparison operators rendered as <column> <op> <literal>
ComparisonOps ==
    [eq |-> "=", ne |-> "!=", gt |-> ">", lt |-> "<", gte |-> ">=", lte |-> "<="]

\* ", ".join(...) of an in-list raises TypeError on an item that is a number
InListRaises(condition) ==
    /\ Lower(condition.operator) = "in"
    /\ condition.value.t = "list"
    /\ \E i \in 1..Len(condition.value.v) : condition.value.v[i].t = "num"

\* the rendering of one condition: <<text>>, or <<>> when the condition is
\* skipped (unknown operator, or in with a value that is not a list)
render_condition(condition) ==
    LET column == condition.column
        operator == Lower(condition.operator)
        value == condition.value
    IN IF operator \in DOMAIN ComparisonOps
       THEN <<column \o <<" ", ComparisonOps[operator], " ">>
                     \o _as_sql_literal(value)>>
       ELSE IF operator = "like"
       THEN <<column \o <<" ", "LIKE", " ", "'", "%", "'", " ", "||", " ">>
                     \o _as_sql_literal(value)
                     \o <<" ", "||", " ", "'", "%", "'">>>>
       ELSE IF operator = "in" /\ value.t = "list"
       THEN <<column \o <<" ", "IN", " ", "(">>
                     \o JoinTexts([i \in 1..Len(value.v) |->
                                      _as_sql_literal(value.v[i])], <<",", " ">>)
                     \o <<")">>>>
       ELSE <<>>

RECURSIVE Flatten(_)
Flatten(ss) == IF ss = <<>> THEN <<>> ELSE Head(ss) \o Flatten(Tail(ss))

\* apply_filters(base_query, filters): [raised, sql]
apply_filters(base_query, filters) ==
    IF filters = None \/ ValueOf(filters).conditions = <<>>
    THEN [raised |-> None, sql |-> base_query]
    ELSE
    LET f == ValueOf(filters)
        where_conditions ==
            Flatten([i \in 1..Len(f.conditions) |->
                        render_condition(f.conditions[i])])
        where_clause == JoinTexts(where_conditions, <<" ", f.logic, " ">>)
    IN IF \E i \in 1..Len(f.conditions) : InListRaises(f.conditions[i])
       THEN [raised |-> Some([type |-> "TypeError",
                              text |-> <<"sequence item 0: expected str instance, int found">>]),
             sql |-> base_query]
       ELSE IF where_conditions # <<>>
       THEN IF HasWhere(base_query)
            THEN [raised |-> None,
                  sql |-> base_query \o <<" ", "AND", " ", "(">> \o where_clause
                                     \o <<")">>]
            ELSE [raised |-> None,
                  sql |-> base_query \o <<" ", "WHERE", " ">> \o where_clause]
       ELSE [raised |-> None, sql |-> base_query]

-----------------------------------------------------------------------------
(* DataService.execute_filtered_query *)

\* truth value of an optional string (None and "" are false)
Truthy(o) == o # None /\ ValueOf(o) # <<>>

\* truth value of an optional integer (None and 0 are false)
TruthyInt(o) == o # None /\ ValueOf(o) # 0

\* the statement QueryService.get_query_by_id runs on app_queries
LookupStmt == Stmt("lookup", <<>>, 0, 0, None)

\* str(e) of the HTTPException validate_sql raises
HttpText(status, detail) == <<ToString(status), ": ", detail>>

\* faulty variant of safe_sort_column: the column is taken as it was sent
safe_sort_column_unfiltered(sort_column) == sort_column

\* "".join(c for c in sort_column if c.isalnum() or c == '_')
safe_sort_column(sort_column) == SelectSeq(sort_column, IsWordToken)

\* the ORDER BY step
sorted_query(filtered_query, request) ==
    IF Truthy(request.sort_column)
    THEN LET direction ==
                 IF Truthy(request.sort_direction)
                    /\ UpperText(ValueOf(request.sort_direction)) = <<"DESC">>
                 THEN "DESC" ELSE "ASC"
         IN filtered_query \o <<" ", "ORDER", " ", "BY", " ">>
                           \o safe_sort_column(ValueOf(request.sort_column))
                           \o <<" ", direction>>
    ELSE filtered_query

\* the part of execute_filtered_query that follows the validation of base_query
run_filtered(base_query, request, src, fault) ==
    LET filtered == apply_filters(base_query, request.filters)
        filtered_query == filtered.sql
        count == [Stmt("count", filtered_query, 0, 0, fault.count)
                     EXCEPT !.base = base_query]
        total_count == count_query(src)
        sorted == sorted_query(filtered_query, request)
        hi == ValueOf(request.limit) + ValueOf(request.offset)
        lo == ValueOf(request.offset)
        page == [Stmt("page", sorted, hi, lo, fault.page)
                    EXCEPT !.base = base_query]
        df1 == drop_rnum(paginated_query(src, hi, lo))
        structure == [Stmt("structure", filtered_query, 0, 0, fault.structure)
                         EXCEPT !.base = base_query]
        df2 == column_structure(df1, src, fault)
    IN IF filtered.raised # None
       THEN [log |-> <<>>, result |-> QueryResult(FALSE, None, Some(ValueOf(filtered.raised).text))]
       ELSE IF fault.count # None
       THEN [log |-> <<count>>, result |-> QueryResult(FALSE, None, Some(ValueOf(fault.count).text))]
       ELSE IF request.limit = None \/ request.offset = None
       THEN [log |-> <<count>>, result |-> QueryResult(FALSE, None, Some(TypeErrorExc.text))]
       ELSE IF fault.page # None
       THEN [log |-> <<count, page>>,
             result |-> QueryResult(FALSE, None, Some(ValueOf(fault.page).text))]
       ELSE [log |-> <<count, page>>
                     \o (IF DfEmpty(df1) THEN <<structure>> ELSE <<>>),
             result |-> QueryResult(TRUE, Some(TableData(df2.cols, df2.rows, total_count)), None)]

\* faulty variant of execute_filtered_query: the query is run before the
\* verdict of the validator is looked at
execute_filtered_query_validating_late(request, row, src, fault) ==
    LET raw == IF TruthyInt(request.query_id) THEN ValueOf(row).sql_query
               ELSE ValueOf(request.sql_query)
        base_query == RStripSemi(Strip(raw))
        lookups == IF TruthyInt(request.query_id) THEN <<LookupStmt>> ELSE <<>>
        run == run_filtered(base_query, request, src, fault)
        verdict == validate_sql(base_query)
    IN IF TruthyInt(request.query_id) /\ row = None
       THEN [log |-> lookups, rejected |-> {}, validated |-> {},
             result |-> QueryResult(FALSE, None, Some(<<"Query not found">>))]
       ELSE IF ~TruthyInt(request.query_id) /\ ~Truthy(request.sql_query)
       THEN [log |-> lookups, rejected |-> {}, validated |-> {},
             result |-> QueryResult(FALSE, None, Some(<<"Either query_id or sql_query must be provided">>))]
       ELSE IF verdict # "ok"
       THEN [log |-> lookups \o run.log, rejected |-> {base_query},
             validated |-> {},
             result |-> QueryResult(FALSE, None,
                                    Some(HttpText(400, verdict)))]
       ELSE [log |-> lookups \o run.log, rejected |-> {},
             validated |-> {base_query},
             result |-> run.result]

\* execute_filtered_query(request): row is what get_query_by_id returns
execute_filtered_query(request, row, src, fault) ==
    LET raw == IF TruthyInt(request.query_id) THEN ValueOf(row).sql_query
               ELSE ValueOf(request.sql_query)
        base_query == RStripSemi(Strip(raw))
        lookups == IF TruthyInt(request.query_id) THEN <<LookupStmt>> ELSE <<>>
        run == run_filtered(base_query, request, src, fault)
        verdict == validate_sql(base_query)
    IN IF TruthyInt(request.query_id) /\ row = None
       THEN [log |-> lookups, rejected |-> {}, validated |-> {},
             result |-> QueryResult(FALSE, None, Some(<<"Query not found">>))]
       ELSE IF ~TruthyInt(request.query_id) /\ ~Truthy(request.sql_query)
       THEN [log |-> lookups, rejected |-> {}, validated |-> {},
             result |-> QueryResult(FALSE, None, Some(<<"Either query_id or sql_query must be provided">>))]
       ELSE IF verdict # "ok"
       THEN [log |-> lookups, rejected |-> {base_query}, validated |-> {},
             result |-> QueryResult(FALSE, None,
                                    Some(HttpText(400, verdict)))]
       ELSE [log |-> lookups \o run.log, rejected |-> {},
             validated |-> {base_query},
             result |-> run.result]

-----------------------------------------------------------------------------
(* Routers: routers/query.py and routers/dashboard.py.  Each operator      *)
(* returns the statements handed to the executor, the texts validate_sql   *)
(* accepted, and the response.                                             *)

\* POST /api/query/execute
execute_query(request, user_role, row, src, fault) ==
    LET sanitized_sql == RStripSemi(Strip(ValueOf(row).sql_query))
        chart == execute_query_for_chart(sanitized_sql, ValueOf(row).chart_type,
                                         DefaultTimeout, src, fault)
        table == execute_query_for_table(sanitized_sql, request.limit,
                                         request.offset, DefaultTimeout, src, fault)
        raw == execute_query_for_table(ValueOf(request.sql_query), request.limit,
                                       request.offset, DefaultTimeout, src, fault)
        stored_verdict == validate_sql(sanitized_sql)
        raw_verdict == validate_sql(ValueOf(request.sql_query))
    IN IF TruthyInt(request.query_id)
       THEN IF row = None
            THEN [log |-> <<LookupStmt>>, rejected |-> {}, validated |-> {},
                  resp |-> HTTPException(404, "Query not found")]
            ELSE IF role_denied(user_role, ValueOf(row).role)
            THEN [log |-> <<LookupStmt>>, rejected |-> {}, validated |-> {},
                  resp |-> HTTPException(403, "Not authorized for this query")]
            ELSE IF stored_verdict # "ok"
            THEN [log |-> <<LookupStmt>>, rejected |-> {sanitized_sql},
                  validated |-> {},
                  resp |-> HTTPException(400, stored_verdict)]
            ELSE IF ValueOf(row).chart_type \notin {None, Some("table")}
            THEN [log |-> <<LookupStmt>> \o chart.log,
                  rejected |-> {}, validated |-> {sanitized_sql}, resp |-> chart.result]
            ELSE [log |-> <<LookupStmt>> \o table.log,
                  rejected |-> {}, validated |-> {sanitized_sql}, resp |-> table.result]
       ELSE IF Truthy(request.sql_query)
       THEN IF raw_verdict # "ok"
            THEN [log |-> <<>>, rejected |-> {ValueOf(request.sql_query)},
                  validated |-> {},
                  resp |-> HTTPException(400, raw_verdict)]
            ELSE [log |-> raw.log, rejected |-> {},
                  validated |-> {ValueOf(request.sql_query)},
                  resp |-> raw.result]
       ELSE [log |-> <<>>, rejected |-> {}, validated |-> {},
             resp |-> HTTPException(400, "Either query_id or sql_query must be provided")]

\* POST /api/query/filtered
execute_filtered_query_route(request, user_role, row, src, fault) ==
    LET service == execute_filtered_query(request, row, src, fault)
    IN IF TruthyInt(request.query_id) /\ row = None
       THEN [log |-> <<LookupStmt>>, rejected |-> {}, validated |-> {},
             resp |-> HTTPException(404, "Query not found")]
       ELSE IF TruthyInt(request.query_id)
               /\ role_denied(user_role, ValueOf(row).role)
       THEN [log |-> <<LookupStmt>>, rejected |-> {}, validated |-> {},
             resp |-> HTTPException(403, "Not authorised for this query")]
       ELSE [log |-> (IF TruthyInt(request.query_id) THEN <<LookupStmt>> ELSE <<>>)
                     \o service.log,
             rejected |-> service.rejected, validated |-> service.validated,
             resp |-> service.result]

\* the tokens of the exception texts in which "timeout" occurs
TimeoutTokens == {"call timeout exceeded"}

\* the detail of the 500 raised by the except Exception branch of the export
export_error_msg(e) ==
    IF \E t \in Range(LowerText(e.text)) : t \in {"no data"}
    THEN "No data available to export."
    ELSE IF \E t \in Range(LowerText(e.text)) : t \in TimeoutTokens
    THEN "Export timed out. Try filtering your data to reduce the result set."
    ELSE "Export failed. Please try again or contact support."

\* the file response of the export
FileResponse(format, columns, nrows) ==
    [kind |-> "Response", success |-> TRUE,
     data |-> Some([type |-> "File", format |-> format, columns |-> columns,
                    nrows |-> nrows]),
     error |-> None, status |-> 200]

\* POST /api/export
export_query_data(request, user_role, row, src, fault) ==
    LET sql == IF TruthyInt(request.query_id) THEN ValueOf(row).sql_query
               ELSE ValueOf(request.sql_query)
        lookups == IF TruthyInt(request.query_id) THEN <<LookupStmt>> ELSE <<>>
        accepted == IF TruthyInt(request.query_id) THEN {} ELSE {sql}
        direct == Stmt("direct", sql, 0, 0, fault.direct)
        headers == Stmt("headers", Strip(sql), 0, 0, fault.headers)
        df == IF DfEmpty(src) THEN [cols |-> <<"No Data">>, rows |-> <<>>] ELSE src
        log == lookups \o <<direct>> \o (IF DfEmpty(src) THEN <<headers>> ELSE <<>>)
        fmt == Lower(request.format)
        verdict == validate_sql(sql)
    IN IF TruthyInt(request.query_id) /\ row = None
       THEN [log |-> lookups, rejected |-> {}, validated |-> {},
             resp |-> HTTPException(404, "Query not found")]
       ELSE IF TruthyInt(request.query_id)
               /\ role_denied(user_role, ValueOf(row).role)
       THEN [log |-> lookups, rejected |-> {}, validated |-> {},
             resp |-> HTTPException(403, "Not authorized for this query")]
       ELSE IF ~TruthyInt(request.query_id) /\ ~Truthy(request.sql_query)
       THEN [log |-> <<>>, rejected |-> {}, validated |-> {},
             resp |-> HTTPException(400, "query_id or sql_query required")]
       ELSE IF ~TruthyInt(request.query_id) /\ verdict # "ok"
       THEN [log |-> <<>>, rejected |-> {sql}, validated |-> {},
             resp |-> HTTPException(400, verdict)]
       ELSE IF fault.direct # None
       THEN [log |-> lookups \o <<direct>>, rejected |-> {}, validated |-> accepted,
             resp |-> HTTPException(500, export_error_msg(ValueOf(fault.direct)))]
       ELSE IF fmt \in {"excel", "csv"}
       THEN [log |-> log, rejected |-> {}, validated |-> accepted,
             resp |-> FileResponse(fmt, df.cols, Len(df.rows))]
       ELSE [log |-> log, rejected |-> {}, validated |-> accepted,
             resp |-> HTTPException(400, "Unsupported format; choose 'excel' or 'csv'")]

\* the statement get_widget_data runs on app_dashboard_widgets
WidgetLookupStmt(raised) == Stmt("lookup", <<>>, 0, 0, raised)

\* POST /api/dashboard/widget/{widget_id}/data: widget_data is the joined row
get_widget_data(timeout, user_role, widget_data, src, fault) ==
    LET chart == execute_query_for_chart(ValueOf(widget_data).sql_query,
                                         ValueOf(widget_data).chart_type,
                                         timeout, src, fault)
    IN IF fault.lookup # None
       THEN [log |-> <<WidgetLookupStmt(fault.lookup)>>, rejected |-> {}, validated |-> {},
             resp |-> QueryResult(FALSE, None, Some(ValueOf(fault.lookup).text))]
       ELSE IF widget_data = None
       THEN [log |-> <<WidgetLookupStmt(None)>>, rejected |-> {}, validated |-> {},
             resp |-> QueryResult(FALSE, None, Some(HttpText(404, "Widget not found")))]
       ELSE [log |-> <<WidgetLookupStmt(None)>> \o chart.log, rejected |-> {}, validated |-> {},
             resp |-> chart.result]

-----------------------------------------------------------------------------
(* KPIService: services.py *)

\* _parse_user_roles(role_string)
_parse_user_roles(role_string) ==
    {Strip(r) : r \in {x \in Range(SplitComma(role_string)) : Strip(x) # <<>>}}

\* _is_user_authorized(user_role, allowed_roles)
_is_user_authorized(user_role, allowed_roles) ==
    IF is_admin(user_role) THEN TRUE
    ELSE IF allowed_roles = {} THEN TRUE
    ELSE user_role \in allowed_roles

\* the statement of _execute_kpi_query(sql_query, kpi_id)
KpiStmt(sql_query, fault) ==
    Stmt("direct", RStripSemi(RStrip(sql_query)), 0, 0, fault.direct)

\* the value _execute_kpi_query returns
KpiValue(src, fault) ==
    IF fault.direct # None \/ src.rows = <<>> THEN Float(<<"0">>)
    ELSE IF PyFloat(src.rows[1][1]).raised = None THEN PyFloat(src.rows[1][1]).value
    ELSE Float(<<"0">>)

\* the statement get_kpis runs on app_queries
KpiLookupStmt(raised) == Stmt("lookup", <<>>, 0, 0, raised)

\* get_kpis(user_role, menu_id): rows are the KPI definitions found
get_kpis(user_role, rows, src, fault) ==
    LET authorized ==
            SelectSeq(rows, LAMBDA r :
                _is_user_authorized(user_role, _parse_user_roles(r.role)))
        kpis == [i \in 1..Len(authorized) |->
                    [id |-> authorized[i].id, value |-> KpiValue(src, fault)]]
        KpiList(l) == [kind |-> "KpiList", success |-> TRUE, data |-> Some(l),
                       error |-> None, status |-> 200]
    IN IF fault.lookup # None
       THEN [log |-> <<KpiLookupStmt(fault.lookup)>>, rejected |-> {}, validated |-> {},
             resp |-> KpiList(<<>>)]
       ELSE [log |-> <<KpiLookupStmt(None)>>
                     \o [i \in 1..Len(authorized) |->
                            KpiStmt(authorized[i].sql_query, fault)],
             rejected |-> {}, validated |-> {}, resp |-> KpiList(kpis)]

-----------------------------------------------------------------------------
(* Inputs of the requests *)

\* the alphabet of the SQL texts enumerated on the validation paths
SqlAlphabet == {"select", "SELECT", " ", ";", "Update", "x"}

\* every text of at most n tokens over the alphabet
TextsUpTo(n) == UNION {[1..k -> SqlAlphabet] : k \in 0..n}

\* SQL texts as administrators store them and callers send them
SqlSamples ==
    {<<"select", " ", "x">>,
     <<" ", "SELECT", " ", "x", ";", ";">>,
     <<"drop", " ", "x">>,
     <<"select", " ", "x", ";", " ", "drop", " ", "x">>}

\* role sets of stored queries (app_queries.role)
QueryRoleSamples == {<<>>, <<" ", "ceo", ",", "finance_user">>}

\* roles of callers (current_user.role)
UserRoleSamples == {<<"admin">>, <<"Ceo">>, <<"USER">>}

ChartTypeSamples == {None, Some("bar"), Some("kpi")}

\* the rows get_query_by_id can return
QueryRows ==
    {[id |-> 1, sql_query |-> q, role |-> r, chart_type |-> c] :
        q \in SqlSamples, r \in QueryRoleSamples, c \in ChartTypeSamples}

\* default values of QueryExecute and FilteredQueryRequest
DefaultLimit == 1000

DefaultOffset == 0

\* a field of a request body: absent, or given with a value (None is null)
Absent == [given |-> FALSE, v |-> None]

Given(v) == [given |-> TRUE, v |-> v]

\* the value pydantic gives the field of the model
FieldOrDefault(field, default) == IF field.given THEN field.v ELSE Some(default)

\* limit and offset of the request bodies
PagingInputs ==
    {[limit |-> Absent, offset |-> Absent],
     [limit |-> Given(None), offset |-> Absent],
     [limit |-> Given(Some(-1)), offset |-> Absent],
     [limit |-> Given(Some(0)), offset |-> Given(Some(1))],
     [limit |-> Given(Some(1)), offset |-> Absent],
     [limit |-> Given(Some(1)), offset |-> Given(Some(1))],
     [limit |-> Given(Some(2)), offset |-> Given(Some(1))],
     [limit |-> Given(Some(2)), offset |-> Given(Some(-1))]}

\* QueryExecute(**body)
QueryExecute(query_id, sql_query, limit, offset) ==
    [query_id |-> query_id, sql_query |-> sql_query,
     limit |-> FieldOrDefault(limit, DefaultLimit),
     offset |-> FieldOrDefault(offset, DefaultOffset)]

\* FilteredQueryRequest(**body)
FilteredQueryRequest(query_id, sql_query, filters, limit, offset, sort_column, sort_direction) ==
    [query_id |-> query_id, sql_query |-> sql_query, filters |-> filters,
     limit |-> FieldOrDefault(limit, DefaultLimit),
     offset |-> FieldOrDefault(offset, DefaultOffset),
     sort_column |-> sort_column, sort_direction |-> sort_direction]

\* ExportRequest(**body)
ExportRequest(query_id, sql_query, format) ==
    [query_id |-> query_id, sql_query |-> sql_query, format |-> format]

\* the statement kinds that can raise
FaultKinds == {"lookup", "page", "structure", "count", "direct", "headers"}

NoFault == [k \in FaultKinds |-> None]

\* what the statements of a kind are made to raise
ErrorsOf(k) == IF k \in {"page", "direct"} THEN DbErrors ELSE {Timeout, Ora00942}

\* fault plans: no statement raises, or the statements of one of the kinds raise
FaultPlans(kinds) ==
    {NoFault}
    \cup UNION {{[NoFault EXCEPT ![k] = Some(e)] : e \in ErrorsOf(k)} : k \in kinds}

\* filters and sorting of the filtered requests
FilterSamples ==
    {[filters |-> None, sort_column |-> None, sort_direction |-> Some(<<"ASC">>)],
     [filters |-> Some([conditions |-> <<>>, logic |-> "AND"]),
      sort_column |-> Some(<<"name", ";", "drop">>),
      sort_direction |-> Some(<<"desc">>)],
     [filters |-> Some([conditions |->
                           <<[column |-> <<"role">>, operator |-> "eq",
                              value |-> StrVal(<<"ADMIN">>)]>>,
                        logic |-> "AND"]),
      sort_column |-> None, sort_direction |-> None],
     [filters |-> Some([conditions |->
                           <<[column |-> <<"id">>, operator |-> "IN",
                              value |-> ListVal(<<StrVal(<<"a">>), StrVal(<<"b">>)>>)],
                             [column |-> <<"name">>, operator |-> "between",
                              value |-> StrVal(<<"O", "'", "Neil">>)]>>,
                        logic |-> "OR"]),
      sort_column |-> Some(<<"name">>), sort_direction |-> Some(<<"ASC">>)]}

\* base queries of the requests that sweep the filters: without WHERE, with
\* the word where, and with an identifier in which the characters occur
BaseQuerySamples ==
    {<<"SELECT", " ", "*", " ", "FROM", " ", "app_users">>,
     <<"select", " ", "x", " ", "where", " ", "x">>,
     <<"select", " ", "nowhere">>}

\* conditions of a TableFilter: every kind of operator and of value
ConditionSamples ==
    {[column |-> <<"role">>, operator |-> "eq", value |-> StrVal(<<"ADMIN">>)],
     [column |-> <<"name">>, operator |-> "LIKE",
      value |-> StrVal(<<"O", "'", "Neil">>)],
     [column |-> <<"id">>, operator |-> "gte", value |-> Num(5)],
     [column |-> <<"name">>, operator |-> "ne",
      value |-> StrVal(<<"'", " ", "OR", " ", "'", "1", "'", "=", "'", "1">>)],
     [column |-> <<"id">>, operator |-> "in",
      value |-> ListVal(<<StrVal(<<"a", "'">>), StrVal(<<"b", ",", " ", "c">>)>>)],
     [column |-> <<"id">>, operator |-> "in", value |-> ListVal(<<Num(1), Num(2)>>)],
     [column |-> <<"tags">>, operator |-> "eq",
      value |-> ListVal(<<StrVal(<<"a">>), Num(1), StrVal(<<"O", "'", "Neil">>)>>)],
     [column |-> <<"name">>, operator |-> "between", value |-> StrVal(<<"x">>)],
     [column |-> <<"id">>, operator |-> "in", value |-> StrVal(<<"abc">>)]}

\* the bodies of TableFilter in the sweep: one or two conditions
TableFilterSamples ==
    {[conditions |-> cs, logic |-> l] :
        cs \in {<<c>> : c \in ConditionSamples}
               \cup {<<c1, c2>> : c1 \in ConditionSamples, c2 \in ConditionSamples},
        l \in {"AND", "OR"}}

\* sort_column and sort_direction of the sweep
SortSamples ==
    {[sort_column |-> None, sort_direction |-> Some(<<"ASC">>)],
     [sort_column |-> Some(<<"name">>), sort_direction |-> Some(<<"desc">>)],
     [sort_column |-> Some(<<"first_name", ";", "drop", " ", "x", "--">>),
      sort_direction |-> Some(<<"DESC", ";", "drop">>)],
     [sort_column |-> Some(<<"(", "'", ")">>), sort_direction |-> None]}

-----------------------------------------------------------------------------
(* Spreadsheet comparator: routers/excel_compare.py.                        *)
(*                                                                         *)
(* A workbook is the sequence of its sheets.  The workbooks are loaded     *)
(* with read_only=True, so the extent of a sheet (max_row, max_column) is  *)
(* what the file records as its dimension, and None when the file records  *)
(* none.  cells holds the cells that have a value; every other cell reads  *)
(* as None.                                                                *)

Sheet(title, extent, cells) == [title |-> title, extent |-> extent, cells |-> cells]

\* max_row and max_column of a sheet
Extent(max_row, max_column) == Some([max_row |-> max_row, max_column |-> max_column])

\* sheet.cell(row, column).value
cell(sheet, row, column) ==
    IF <<row, column>> \in DOMAIN sheet.cells THEN sheet.cells[<<row, column>>]
    ELSE Null

\* workbook.sheetnames
sheetnames(workbook) == [i \in 1..Len(workbook) |-> workbook[i].title]

\* workbook[sheet_name]
sheet_of(workbook, sheet_name) ==
    workbook[CHOOSE i \in 1..Len(workbook) : workbook[i].title = sheet_name]

Alphabet ==
    <<"A", "B", "C", "D", "E", "F", "G", "H", "I", "J", "K", "L", "M", "N", "O",
      "P", "Q", "R", "S", "T", "U", "V", "W", "X", "Y", "Z">>

RECURSIVE get_column_letter(_)
\* openpyxl.utils.get_column_letter(col): the letters of column col
get_column_letter(col) ==
    IF col = 0 THEN <<>>
    ELSE get_column_letter((col - 1) \div Len(Alphabet))
         \o <<Alphabet[((col - 1) % Len(Alphabet)) + 1]>>

\* the longest value shown of a difference
DisplayLength == 100

RECURSIVE Take(_, _)
\* text[:n], cut between tokens
Take(text, n) ==
    IF text = <<>> \/ Len(Head(text)) > n THEN <<>>
    ELSE <<Head(text)>> \o Take(Tail(text), n - Len(Head(text)))

\* the string a cell value is compared by: None and "" as "", str() otherwise
cell_str(value) == IF value.t = "null" THEN <<>> ELSE Str(value)

\* the rectangle above which the rows compared are limited
MaxTotalCells == 1000000

\* the rows compared of a sheet above that rectangle
MaxRowsCompared == 1000

\* max_differences of compare_sheets
MaxDifferences == 1000

RECURSIVE RowMajor(_, _, _, _, _)
\* the positions of a set in the order in which the loops over the rows
\* 1..max_row and, within a row, over the columns 1..max_col visit them:
\* those of the coordinate axis within lo..hi, by halving the range
RowMajor(positions, axis, lo, hi, max_col) ==
    IF positions = {} THEN <<>>
    ELSE IF lo = hi
    THEN (IF axis = 1 THEN RowMajor(positions, 2, 1, max_col, max_col)
          ELSE <<CHOOSE p \in positions : TRUE>>)
    ELSE LET mid == (lo + hi) \div 2
         IN RowMajor({p \in positions : p[axis] <= mid}, axis, lo, mid, max_col)
            \o RowMajor({p \in positions : p[axis] > mid}, axis, mid + 1, hi, max_col)

\* the result of a sheet for which no cell was compared
SheetResult(sheet_name, cell_id, value1, value2, status, differences) ==
    [sheet |-> sheet_name, cell_id |-> cell_id, value1 |-> value1,
     value2 |-> value2, status |-> status, differences |-> differences]

\* the rows compared of the rectangle max_row x max_col
compare_rows(max_row, max_col) ==
    IF max_row * max_col > MaxTotalCells
    THEN (IF max_row < MaxRowsCompared THEN max_row ELSE MaxRowsCompared)
    ELSE max_row

\* faulty variant of cap_differences: every unequal cell is collected
cap_differences_uncapped(unequal) == unequal

\* the unequal cells of which a difference is collected: the loops stop at
\* max_differences
cap_differences(unequal) ==
    IF Len(unequal) > MaxDifferences THEN SubSeq(unequal, 1, MaxDifferences)
    ELSE unequal

\* compare_sheets(sheet1, sheet2, sheet_name)
compare_sheets(sheet1, sheet2, sheet_name) ==
    IF sheet1.extent = None \/ sheet2.extent = None
    THEN \* max() of None: TypeError, caught by the handler of the sheet
         SheetResult(sheet_name, <<"ERROR">>, <<"Error during comparison">>,
                     <<"'>' not supported between instances of 'NoneType' and 'NoneType'">>,
                     "comparison_error", <<>>)
    ELSE
    LET e1 == ValueOf(sheet1.extent)
        e2 == ValueOf(sheet2.extent)
        max_row0 == IF e1.max_row > e2.max_row THEN e1.max_row ELSE e2.max_row
        max_col == IF e1.max_column > e2.max_column THEN e1.max_column
                   ELSE e2.max_column
        max_row == compare_rows(max_row0, max_col)
        value1(p) == IF p[1] <= e1.max_row /\ p[2] <= e1.max_column
                     THEN cell(sheet1, p[1], p[2]) ELSE Null
        value2(p) == IF p[1] <= e2.max_row /\ p[2] <= e2.max_column
                     THEN cell(sheet2, p[1], p[2]) ELSE Null
        visited == {p \in DOMAIN sheet1.cells \cup DOMAIN sheet2.cells :
                       p[1] <= max_row /\ p[2] <= max_col}
        unequal == RowMajor({p \in visited :
                                cell_str(value1(p)) # cell_str(value2(p))},
                            1, 1, max_row, max_col)
        kept == cap_differences(unequal)
        differences ==
            [k \in 1..Len(kept) |->
                [sheet |-> sheet_name,
                 cell_id |-> get_column_letter(kept[k][2]) \o <<ToString(kept[k][1])>>,
                 value1 |-> Take(cell_str(value1(kept[k])), DisplayLength),
                 value2 |-> Take(cell_str(value2(kept[k])), DisplayLength),
                 status |-> "not matched"]]
    IN IF /\ e1.max_row = 1 /\ e1.max_column = 1 /\ cell(sheet1, 1, 1) = Null
          /\ e2.max_row = 1 /\ e2.max_column = 1 /\ cell(sheet2, 1, 1) = Null
       THEN SheetResult(sheet_name, <<"NA">>, <<"Empty sheet">>, <<"Empty sheet">>,
                        "matched", <<>>)
       ELSE IF differences = <<>>
       THEN SheetResult(sheet_name, <<"NA">>, <<"NA">>, <<"NA">>, "matched", <<>>)
       ELSE SheetResult(sheet_name, <<"multiple">>, <<"multiple">>, <<"multiple">>,
                        "not matched", differences)

\* raise HTTPException(status_code, detail) with a detail built of parts
HTTPExceptionText(status, detail) ==
    [kind |-> "HTTPException", success |-> FALSE, data |-> None,
     error |-> Some(detail), status |-> status]

\* APIResponse(success=True, message=..., data=result)
APIResponse(result) ==
    [kind |-> "APIResponse", success |-> TRUE, data |-> Some(result),
     error |-> None, status |-> 200]

\* MAX_FILE_SIZE: 50 MB
MAX_FILE_SIZE == 50 * 1024 * 1024

\* the extension of a file name: filename.lower().split('.')[-1]
file_ext(filename) == Lower(filename[Len(filename)])

\* InputValidator.validate_path_traversal(filename)
validate_path_traversal(filename) == ~Has(LowerText(filename), "../")

\* InputValidator.validate_file_upload(filename, ['.xlsx', '.xls'])
validate_file_upload(filename) ==
    IF filename = <<>> THEN FALSE
    ELSE IF ~validate_path_traversal(Strip(filename)) THEN FALSE
    ELSE IF file_ext(Strip(filename)) \notin {"xlsx", "xls"} THEN FALSE
    ELSE TRUE

\* the signatures of the containers: zip (xlsx) and OLE2 (xls)
ContainerSignatures == {"PK", "D0CF"}

\* the enumerations of a set: the orders in which list(set) and the loops
\* over a set can yield its elements
Orders(S) ==
    {o \in [1..Cardinality(S) -> S] : \A i, j \in 1..Cardinality(S) : o[i] = o[j] => i = j}

\* faulty variant of missing_sheets: the sheets of one file only are not
\* reported
missing_sheets_unreported(order, in_file1) == <<>>

\* the entries of the sheets that only one file holds, in the order the set
\* of their names is iterated; in_file1 says which file holds them
missing_sheets(order, in_file1) ==
    [k \in 1..Len(order) |->
        SheetResult(order[k], <<"NA">>,
                    IF in_file1 THEN <<"sheet exists">> ELSE <<"sheet missing">>,
                    IF in_file1 THEN <<"sheet missing">> ELSE <<"sheet exists">>,
                    IF in_file1 THEN "sheet_missing_in_file2"
                    ELSE "sheet_missing_in_file1",
                    <<>>)]

\* faulty variant of count_matched: a sheet whose comparison failed counts as
\* matched
count_matched_with_errors(compared) ==
    Cardinality({k \in 1..Len(compared) :
                    compared[k].status \in {"matched", "comparison_error"}})

\* matched_sheets: the results of status matched
count_matched(compared) ==
    Cardinality({k \in 1..Len(compared) : compared[k].status = "matched"})

\* the comparison of the loaded workbooks: common_order, only1_order and
\* only2_order are the orders in which the sets of names are iterated
compare_workbooks(file1, file2, common_order, only1_order, only2_order) ==
    LET workbook1 == ValueOf(file1.content.workbook)
        workbook2 == ValueOf(file2.content.workbook)
        sheets1 == sheetnames(workbook1)
        sheets2 == sheetnames(workbook2)
        sheets_to_compare ==
            IF Len(sheets1) # Len(sheets2) THEN common_order ELSE sheets1
        in_both(name) == name \in Range(sheets1) /\ name \in Range(sheets2)
        compared ==
            [k \in 1..Len(sheets_to_compare) |->
                IF in_both(sheets_to_compare[k])
                THEN compare_sheets(sheet_of(workbook1, sheets_to_compare[k]),
                                    sheet_of(workbook2, sheets_to_compare[k]),
                                    sheets_to_compare[k])
                ELSE SheetResult(sheets_to_compare[k], <<"NA">>,
                                 IF sheets_to_compare[k] \in Range(sheets1)
                                 THEN <<"sheet exists">> ELSE <<"sheet missing">>,
                                 IF sheets_to_compare[k] \in Range(sheets2)
                                 THEN <<"sheet exists">> ELSE <<"sheet missing">>,
                                 "sheet_mismatch", <<>>)]
        matched_sheets == count_matched(compared)
        missing2 == missing_sheets(only1_order, TRUE)
        missing1 == missing_sheets(only2_order, FALSE)
        total == Len(sheets_to_compare) + Len(only1_order) + Len(only2_order)
    IN IF Len(sheets1) # Len(sheets2) /\ common_order = <<>>
       THEN HTTPExceptionText(400, <<"No common sheets found between files. File 1 has: ">>
                                   \o sheets1 \o <<". File 2 has: ">> \o sheets2)
       ELSE APIResponse(
                [success |-> /\ matched_sheets = Len(sheets_to_compare)
                             /\ only1_order = <<>>
                             /\ only2_order = <<>>,
                 total_sheets |-> total,
                 matched_sheets |-> matched_sheets,
                 comparison_results |-> compared \o missing2 \o missing1,
                 file1_sheets |-> Len(sheets1),
                 file2_sheets |-> Len(sheets2)])

\* POST /api/excel-compare: the response, and the uploads whose bytes were
\* handed to openpyxl.load_workbook
compare_excel_files(file1, file2, common_order, only1_order, only2_order) ==
    LET Refused(status, detail) == [resp |-> HTTPException(status, detail), loaded |-> {}]
        too_large(file) == file.size # None /\ ValueOf(file.size) > MAX_FILE_SIZE
        signed(file) == file.content.signature \in ContainerSignatures
    IN IF file1 = None THEN Refused(400, "File1 is required.")
       ELSE IF file2 = None THEN Refused(400, "File2 is required.")
       ELSE LET f1 == ValueOf(file1)
                f2 == ValueOf(file2)
            IN IF f1.filename = <<>> THEN Refused(400, "File1 must have a filename.")
               ELSE IF f2.filename = <<>> THEN Refused(400, "File2 must have a filename.")
               ELSE IF ~validate_file_upload(f1.filename)
               THEN Refused(400, "Invalid file1 name or type. Only Excel files are allowed.")
               ELSE IF ~validate_file_upload(f2.filename)
               THEN Refused(400, "Invalid file2 name or type. Only Excel files are allowed.")
               ELSE IF too_large(f1)
               THEN Refused(400, "File1 too large. Maximum size is 50MB.")
               ELSE IF too_large(f2)
               THEN Refused(400, "File2 too large. Maximum size is 50MB.")
               ELSE IF f1.read = Some("timeout") \/ (f1.read = None /\ f2.read = Some("timeout"))
               THEN Refused(400, "File reading timed out. Files may be too large or corrupted.")
               ELSE IF f1.read # None \/ f2.read # None
               THEN Refused(400, "Error reading uploaded files. Please ensure files are not corrupted.")
               ELSE IF ~signed(f1) \/ ~signed(f2)
               THEN \* the HTTPException of the signature check is raised inside the
                    \* try of the read and replaced by its except Exception branch
                    Refused(400, "Error reading uploaded files. Please ensure files are not corrupted.")
               ELSE IF f1.content.workbook = None
               THEN [resp |-> HTTPExceptionText(400, <<"Error loading ">> \o Strip(f1.filename)
                                  \o <<". Please ensure it's a valid Excel file.">>),
                     loaded |-> {1}]
               ELSE IF f2.content.workbook = None
               THEN [resp |-> HTTPExceptionText(400, <<"Error loading ">> \o Strip(f2.filename)
                                  \o <<". Please ensure it's a valid Excel file.">>),
                     loaded |-> {1, 2}]
               ELSE [resp |-> compare_workbooks(f1, f2, common_order, only1_order,
                                                only2_order),
                     loaded |-> {1, 2}]

-----------------------------------------------------------------------------
(* Data import: routers/importer.py.  A file is its name and the frame     *)
(* pandas reads from it (None when it cannot be read); a row of the frame  *)
(* holds its values and the ORA error the insert of it raises (None when   *)
(* the insert is executed and committed).                                  *)

\* ImportMode
ImportModes == {"skip_failed", "abort_on_error"}

\* the message shown for the error of an insert
sanitized_error(code) ==
    IF code = "ORA-12899" THEN "Value too large for column"
    ELSE IF code = "ORA-01400" THEN "Required field is empty"
    ELSE IF code = "ORA-02291" THEN "Invalid reference value (Foreign Key missing)"
    ELSE IF code = "ORA-00001" THEN "Duplicate entry"
    ELSE IF code \in {"ORA-01861", "ORA-01843", "ORA-01847"} THEN "Invalid date format"
    ELSE IF code = "ORA-01722" THEN "Invalid number format"
    ELSE "Data validation error"

RECURSIVE insert_rows(_, _, _)
\* the loop over the rows from row idx on: every insert that does not raise
\* is committed by execute_non_query; in abort_on_error mode the loop ends at
\* the first insert that raises
insert_rows(rows, idx, import_mode) ==
    IF idx > Len(rows) THEN [inserted |-> <<>>, failed |-> 0, errors |-> <<>>]
    ELSE IF rows[idx].raises = None
    THEN LET rest == insert_rows(rows, idx + 1, import_mode)
         IN [rest EXCEPT !.inserted = <<rows[idx].values>> \o @]
    ELSE LET error_msg_ == <<"Row ", ToString(idx), ": ",
                             sanitized_error(ValueOf(rows[idx].raises))>>
             rest == IF import_mode = "abort_on_error"
                     THEN [inserted |-> <<>>, failed |-> 0, errors |-> <<>>]
                     ELSE insert_rows(rows, idx + 1, import_mode)
         IN [rest EXCEPT !.failed = @ + 1, !.errors = <<error_msg_>> \o @]

\* the columns of the target table
TargetColumns == {"id", "name"}

\* the response of the import: APIResponse(success, message, data)
ImportResponse(success, data) ==
    [kind |-> "APIResponse", success |-> success, data |-> data, error |-> None,
     status |-> 200]

\* POST /api/report/{table_name}/import: the response and the rows of the
\* target table afterwards.  lookup is the answer of the metadata queries.
import_report_data(lookup, mode, file, user_role, stored) ==
    LET Raised(status, detail) ==
            [resp |-> HTTPException(status, detail), target_table |-> stored]
        ends_with(exts) ==
            /\ Len(file.filename) >= 2
            /\ file.filename[Len(file.filename) - 1] = "."
            /\ Lower(file.filename[Len(file.filename)]) \in exts
    IN IF ~is_admin(user_role) THEN Raised(403, "Not authorised to import data")
       ELSE IF mode \notin ImportModes THEN Raised(400, "Invalid import mode")
       ELSE IF ~ends_with({"xlsx", "xls", "csv", "txt"}) \/ file.frame = None
       THEN Raised(400, "Failed to parse uploaded file")
       ELSE LET df == ValueOf(file.frame)
                columns == LowerText(df.columns)
                done == insert_rows(df.rows, 1, mode)
                success == done.failed = 0 \/ mode = "skip_failed"
            IN IF df.rows = <<>>
               THEN [resp |-> ImportResponse(FALSE, None), target_table |-> stored]
               ELSE IF lookup = "error"
               THEN Raised(500, "Unable to access table information. Please verify the table exists.")
               ELSE IF lookup = "missing"
               THEN Raised(404, "Table not found. Please verify the report name matches the target database table.")
               ELSE IF ~(Range(columns) \subseteq TargetColumns)
               THEN Raised(400, "Unknown columns in file")
               ELSE [resp |-> ImportResponse(success,
                                  Some([success |-> success,
                                        total_records |-> Len(df.rows),
                                        inserted_records |-> Len(done.inserted),
                                        failed_records |-> done.failed,
                                        errors |-> done.errors])),
                     target_table |-> stored \o done.inserted]

-----------------------------------------------------------------------------
(* Security middleware: security_middleware.py.  clock is time.time() in   *)
(* seconds; request_counts, failed_attempts and blocked_ips are the        *)
(* dictionaries of the middleware, keyed by the address of the client.     *)

\* the addresses of the clients
Ips == {"203.0.113.7"}

\* the defaults of SecurityMiddleware.__init__
max_requests_per_minute == 60

max_failed_attempts == 5

\* the seconds a block lasts
BlockSeconds == 300

\* the seconds of the window of the rate limit
WindowSeconds == 60

\* the response of the middleware itself
JSONResponse(status, error) ==
    [kind |-> "JSONResponse", success |-> FALSE, data |-> None,
     error |-> Some(<<error>>), status |-> status]

\* the response of the application behind the middleware; kind raised
\* stands for an exception of call_next, which dispatch re-raises
HandlerResponse(request) ==
    [kind |-> IF request.raises THEN "raised" ELSE "Response",
     success |-> ~request.raises /\ request.status < 400, data |-> None,
     error |-> None, status |-> IF request.raises THEN 500 ELSE request.status]

\* SecurityMiddleware.dispatch(request, call_next): the response and the
\* dictionaries afterwards.  request.suspicious says that
\* validate_request_security refuses the request for its size, its URL, its
\* User-Agent or its query parameters; request.status is the status of the
\* response of call_next and request.raises says that call_next raises.
dispatch(request) ==
    LET client_ip == request.ip
        is_blocked == client_ip \in DOMAIN blocked_ips /\ clock < blocked_ips[client_ip]
        \* validate_request_security: an expired block is deleted
        unblocked == IF client_ip \in DOMAIN blocked_ips /\ ~is_blocked
                     THEN [ip \in DOMAIN blocked_ips \ {client_ip} |-> blocked_ips[ip]]
                     ELSE blocked_ips
        \* check_rate_limit
        unlimited == request.method = "OPTIONS"
                     \/ client_ip \in {"127.0.0.1", "::1", "localhost"}
        recent == SelectSeq(request_counts[client_ip],
                            LAMBDA t : ~(t < clock - WindowSeconds))
        limited == ~unlimited /\ Len(recent) >= max_requests_per_minute
        counted == IF unlimited THEN request_counts
                   ELSE IF limited THEN [request_counts EXCEPT ![client_ip] = recent]
                   ELSE [request_counts EXCEPT ![client_ip] = Append(recent, clock)]
        failing == request.status \in {401, 403}
        login == Lower(request.path[1]) = "/auth/login"
        attempts == IF request.raises THEN failed_attempts
                    ELSE IF failing /\ login THEN failed_attempts
                    ELSE IF failing
                    THEN [failed_attempts EXCEPT ![client_ip] = @ + 1]
                    ELSE [failed_attempts EXCEPT ![client_ip] = 0]
        blocks == IF ~request.raises /\ failing /\ ~login
                     /\ attempts[client_ip] >= max_failed_attempts
                  THEN [ip \in DOMAIN unblocked \cup {client_ip} |->
                           IF ip = client_ip THEN clock + BlockSeconds
                           ELSE unblocked[ip]]
                  ELSE unblocked
    IN IF is_blocked \/ request.suspicious
       THEN [resp |-> JSONResponse(429, "Request blocked by security policy"),
             request_counts |-> request_counts, failed_attempts |-> failed_attempts,
             blocked_ips |-> unblocked]
       ELSE IF limited
       THEN [resp |-> JSONResponse(429, "Rate limit exceeded. Please try again later."),
             request_counts |-> counted, failed_attempts |-> failed_attempts,
             blocked_ips |-> unblocked]
       ELSE [resp |-> HandlerResponse(request),
             request_counts |-> counted, failed_attempts |-> attempts,
             blocked_ips |-> blocks]

-----------------------------------------------------------------------------
(* State: the request being served.  pc is "idle" between requests and     *)
(* "done" when the handler has returned; req is the request, executed the  *)
(* statements handed to the database executor while serving it, validated  *)
(* the texts validate_sql accepted and rejected the texts it refused, resp *)
(* the response, loaded the uploads handed to the workbook parser.  Of the  *)
(* handlers only the import keeps something from one request to the next: *)
(* target_table, the rows committed to the table of the import.  streak is *)
(* a history of the middleware: for each address, the 401 and 403          *)
(* responses outside /auth/login since its last other response of the      *)
(* application or since its last block was found expired.                  *)

NoRequest == [op |-> "none"]

NoResponse == [kind |-> "none", success |-> FALSE, data |-> None,
               error |-> None, status |-> 0]

Init ==
    /\ pc = "idle"
    /\ req = NoRequest
    /\ executed = <<>>
    /\ validated = {}
    /\ rejected = {}
    /\ resp = NoResponse
    /\ loaded = {}
    /\ target_table = <<>>
    /\ clock = 0
    /\ request_counts = [ip \in Ips |-> <<>>]
    /\ failed_attempts = [ip \in Ips |-> 0]
    /\ blocked_ips = [ip \in {} |-> 0]
    /\ streak = [ip \in Ips |-> 0]

\* the handler ran: record what it did
Served(r, out) ==
    /\ pc = "idle"
    /\ pc' = "done"
    /\ req' = r
    /\ executed' = out.log
    /\ validated' = out.validated
    /\ rejected' = out.rejected
    /\ resp' = out.resp
    /\ loaded' = IF "loaded" \in DOMAIN out THEN out.loaded ELSE {}
    /\ target_table' = IF "target_table" \in DOMAIN out THEN out.target_table
                       ELSE target_table
    /\ UNCHANGED middleware_vars

ExecuteQuery(request, user_role, row, src, fault) ==
    Served([op |-> "execute_query", request |-> request, user_role |-> user_role,
            row |-> row, src |-> src],
           execute_query(request, user_role, row, src, fault))

ExecuteFilteredQuery(request, user_role, row, src, fault) ==
    Served([op |-> "execute_filtered_query", request |-> request,
            user_role |-> user_role, row |-> row, src |-> src],
           execute_filtered_query_route(request, user_role, row, src, fault))

ExportQueryData(request, user_role, row, src, fault) ==
    Served([op |-> "export_query_data", request |-> request,
            user_role |-> user_role, row |-> row, src |-> src],
           export_query_data(request, user_role, row, src, fault))

GetWidgetData(timeout, user_role, widget_data, src, fault) ==
    Served([op |-> "get_widget_data", request |-> [timeout |-> timeout],
            user_role |-> user_role, row |-> widget_data, src |-> src],
           get_widget_data(timeout, user_role, widget_data, src, fault))

GetKpis(user_role, rows, src, fault) ==
    Served([op |-> "get_kpis", request |-> [menu_id |-> None],
            user_role |-> user_role, rows |-> rows, src |-> src],
           get_kpis(user_role, rows, src, fault))

\* the response is sent and the request's state is discarded
Respond ==
    /\ pc = "done"
    /\ pc' = "idle"
    /\ req' = NoRequest
    /\ executed' = <<>>
    /\ validated' = {}
    /\ rejected' = {}
    /\ resp' = NoResponse
    /\ loaded' = {}
    /\ UNCHANGED <<target_table, middleware_vars>>

Sources == {Source(n) : n \in 0..MaxRows}

OptionalRows == {None} \cup {Some(r) : r \in QueryRows}

OptionalSql == {None} \cup {Some(q) : q \in SqlSamples}

\* a stored or an ad-hoc query is executed
ExecuteQueryRequest ==
    /\ pc = "idle"
    /\ \E user_role \in UserRoleSamples, src \in Sources,
          fault \in FaultPlans({"page", "structure", "count", "direct"}),
          paging \in PagingInputs :
        \/ \E row \in OptionalRows :
              ExecuteQuery(QueryExecute(Some(1), None, paging.limit, paging.offset),
                           user_role, row, src, fault)
        \/ \E sql \in OptionalSql :
              ExecuteQuery(QueryExecute(None, sql, paging.limit, paging.offset),
                           user_role, None, src, fault)

\* a stored or an ad-hoc query is executed with filters, sorting and paging
FilteredQueryRequest_ ==
    /\ pc = "idle"
    /\ \E user_role \in UserRoleSamples, src \in Sources,
          fault \in FaultPlans({"page", "structure", "count"}),
          paging \in PagingInputs, f \in FilterSamples :
        \/ \E row \in {r \in OptionalRows : r = None \/ ValueOf(r).chart_type = None} :
              ExecuteFilteredQuery(
                  FilteredQueryRequest(Some(1), None, f.filters, paging.limit,
                                       paging.offset, f.sort_column,
                                       f.sort_direction),
                  user_role, row, src, fault)
        \/ \E sql \in OptionalSql :
              ExecuteFilteredQuery(
                  FilteredQueryRequest(None, sql, f.filters, paging.limit,
                                       paging.offset, f.sort_column,
                                       f.sort_direction),
                  user_role, None, src, fault)

\* a stored or an ad-hoc query is exported to a file
ExportRequest_ ==
    /\ pc = "idle"
    /\ \E user_role \in UserRoleSamples, src \in Sources,
          fault \in FaultPlans({"direct", "headers"}),
          format \in {"csv", "excel", "pdf"} :
        \/ \E row \in {r \in OptionalRows : r = None \/ ValueOf(r).chart_type = None} :
              ExportQueryData(ExportRequest(Some(1), None, format),
                              user_role, row, src, fault)
        \/ \E sql \in OptionalSql :
              ExportQueryData(ExportRequest(None, sql, format),
                              user_role, None, src, fault)

\* the data of a dashboard widget is requested
WidgetDataRequest ==
    /\ pc = "idle"
    /\ \E user_role \in UserRoleSamples, src \in Sources,
          fault \in FaultPlans({"lookup", "direct"}),
          row \in OptionalRows, timeout \in {DefaultTimeout, 5} :
          GetWidgetData(timeout, user_role, row, src, fault)

\* the KPI definitions found on app_queries: at most two rows
KpiRowLists ==
    LET rows == {r \in QueryRows : r.chart_type = Some("kpi")}
    IN {<<>>} \cup {<<r>> : r \in rows}
       \cup {<<r1, [r2 EXCEPT !.id = 2]>> : r1 \in rows, r2 \in rows}

\* the KPIs of the dashboard are requested
KpisRequest ==
    /\ pc = "idle"
    /\ \E user_role \in UserRoleSamples, src \in Sources,
          fault \in FaultPlans({"lookup", "direct"}), rows \in KpiRowLists :
          GetKpis(user_role, rows, src, fault)

\* every SQL text over the alphabet, stored or ad-hoc, is sent by an
\* administrator through the executing and the filtering route
SqlSweepRequest ==
    /\ pc = "idle"
    /\ \E sql \in TextsUpTo(MaxLen), stored \in BOOLEAN :
          LET row == IF stored
                     THEN Some([id |-> 1, sql_query |-> sql, role |-> <<>>,
                                chart_type |-> None])
                     ELSE None
              query_id == IF stored THEN Some(1) ELSE None
              sql_query == IF stored THEN None ELSE Some(sql)
          IN \/ ExecuteQuery(QueryExecute(query_id, sql_query, Absent, Absent),
                              <<"admin">>, row, Source(1), NoFault)
             \/ ExecuteFilteredQuery(
                    FilteredQueryRequest(query_id, sql_query, None, Absent, Absent,
                                         None, None),
                    <<"admin">>, row, Source(1), NoFault)

\* results of the queries behind the charts: no row, one column (a number,
\* a numeric text, a text, NULL), two and three columns
ChartSources ==
    {[cols |-> <<"TOTAL">>, rows |-> <<>>],
     [cols |-> <<"TOTAL">>, rows |-> <<<<Num(42)>>>>],
     [cols |-> <<"TOTAL">>, rows |-> <<<<StrVal(<<" ", "7">>)>>>>],
     [cols |-> <<"TOTAL">>, rows |-> <<<<StrVal(<<"n/a">>)>>, <<Num(1)>>>>],
     [cols |-> <<"TOTAL">>, rows |-> <<<<Null>>>>],
     [cols |-> <<"NAME", "TOTAL">>,
      rows |-> <<<<StrVal(<<"a">>), Num(1)>>, <<StrVal(<<"b">>), StrVal(<<"x">>)>>>>],
     [cols |-> <<"NAME", "TOTAL", " ">>,
      rows |-> <<<<StrVal(<<"a">>), Num(1), Num(2)>>,
                 <<Num(3), Null, Float(<<"7">>)>>>>]}

\* the chart kinds of stored queries
ChartKinds ==
    {None, Some("kpi"), Some("bar"), Some("line"), Some("pie"), Some("doughnut"),
     Some("scatter"), Some("table")}

\* the widget of every chart kind over every sample result is requested
ChartSweepRequest ==
    /\ pc = "idle"
    /\ \E kind \in ChartKinds, src \in ChartSources, timeout \in {DefaultTimeout} :
          GetWidgetData(timeout, <<"USER">>,
                        Some([id |-> 1, sql_query |-> <<"select", " ", "x">>,
                              role |-> <<>>, chart_type |-> kind]),
                        src, NoFault)

\* every sample filter and sorting is sent with an ad-hoc base query by an
\* administrator through the filtering route
FilterSweepRequest ==
    /\ pc = "idle"
    /\ \E base \in BaseQuerySamples, filters \in TableFilterSamples,
          sort \in SortSamples, src \in {Source(0), Source(2)} :
          ExecuteFilteredQuery(
              FilteredQueryRequest(None, Some(base), Some(filters), Absent, Absent,
                                   sort.sort_column, sort.sort_direction),
              <<"admin">>, None, src, NoFault)

\* an upload of a workbook under a name, read without trouble
Upload(filename, workbook) ==
    Some([filename |-> filename, size |-> Some(1024),
          content |-> [length |-> 1024, signature |-> "PK",
                       workbook |-> Some(workbook)],
          read |-> None])

\* a text of 101 characters
LongText == [i \in 1..(DisplayLength + 1) |-> "x"]

\* the sheets of the sample workbooks: empty, small, wide, of exactly and of
\* more than MaxTotalCells cells, holding a long text, and without a recorded
\* dimension
SheetSamples(title) ==
    {Sheet(title, Extent(1, 1), <<>>),
     Sheet(title, Extent(2, 3),
           (<<1, 1>> :> StrVal(<<"a">>)) @@ (<<2, 3>> :> Num(1))),
     Sheet(title, Extent(1, 28),
           (<<1, 27>> :> StrVal(<<"x">>)) @@ (<<1, 28>> :> Float(<<"2">>))),
     Sheet(title, Extent(1000, 1000), (<<1000, 1000>> :> StrVal(<<"end">>))),
     Sheet(title, Extent(1001, 1000),
           (<<1, 1>> :> StrVal(<<"a">>)) @@ (<<1001, 1000>> :> StrVal(<<"end">>))),
     Sheet(title, Extent(1, 1), (<<1, 1>> :> StrVal(LongText))),
     Sheet(title, None, (<<1, 1>> :> StrVal(<<"a">>)))}

\* the cells that are edited
EditPositions ==
    {<<1, 1>>, <<2, 3>>, <<3, 1>>, <<1, 27>>, <<1000, 1000>>, <<1001, 1>>,
     <<1001, 1000>>}

\* the values an edit writes
EditValues ==
    {Null, StrVal(<<>>), StrVal(<<"a">>), StrVal(<<"b">>), StrVal(<<"1">>), Num(1)}

\* the sheet with one cell rewritten; a sheet that records its dimension
\* records one that holds the cell
WithCell(sheet, pos, value) ==
    LET others == DOMAIN sheet.cells \ {pos}
        kept == IF value = Null THEN others ELSE others \cup {pos}
        grown(e) == [max_row |-> IF pos[1] > e.max_row THEN pos[1] ELSE e.max_row,
                     max_column |-> IF pos[2] > e.max_column THEN pos[2]
                                    ELSE e.max_column]
    IN Sheet(sheet.title,
             IF sheet.extent = None THEN None ELSE Some(grown(ValueOf(sheet.extent))),
             [p \in kept |-> IF p = pos THEN value ELSE sheet.cells[p]])

\* a sheet of rows x columns cells that all hold the value
FilledSheet(title, rows, columns, value) ==
    Sheet(title, Extent(rows, columns),
          [p \in (1..rows) \X (1..columns) |-> value])

\* workbooks of two sheets that hold more cells than differences are
\* collected, and workbooks of a few cells, every cell of a sheet holding
\* the same one of the values
DenseWorkbooks(values) ==
    {<<FilledSheet("X", 11, 100, StrVal(<<v>>)), FilledSheet("Y", r, 2, StrVal(<<w>>))>> :
        v \in values, w \in values, r \in {1, 550}}

\* the uploads of the comparison requests
UploadSamples ==
    LET small(title) == Sheet(title, Extent(2, 3),
                              (<<1, 1>> :> StrVal(<<"a">>)) @@ (<<2, 3>> :> Num(1)))
        other(title) == Sheet(title, Extent(2, 3),
                              (<<1, 1>> :> StrVal(<<"b">>)) @@ (<<2, 3>> :> StrVal(<<"1">>)))
        unsized(title) == Sheet(title, None, (<<1, 1>> :> StrVal(<<"a">>)))
        name == <<"book", ".", "xlsx">>
        plain == ValueOf(Upload(name, <<small("X")>>))
    IN {None,
        Upload(name, <<small("X")>>),
        Upload(<<"other", ".", "XLSX">>, <<other("X")>>),
        Upload(name, <<small("X"), small("Y")>>),
        Upload(name, <<small("Y"), small("X")>>),
        Upload(name, <<small("X"), other("Z")>>),
        Upload(name, <<other("X"), small("Z")>>),
        Upload(name, <<small("Y"), small("Z")>>),
        Upload(name, <<small("Z")>>),
        Upload(name, <<small("X"), unsized("Y")>>),
        Upload(name, <<unsized("X"), other("Y")>>),
        Upload(<<>>, <<small("X")>>),
        Upload(<<"book", ".", "csv">>, <<small("X")>>),
        Upload(<<"../", "book", ".", "xls">>, <<small("X")>>),
        Some([plain EXCEPT !.size = Some(MAX_FILE_SIZE + 1),
                           !.content.length = MAX_FILE_SIZE + 1]),
        Some([plain EXCEPT !.size = Some(MAX_FILE_SIZE),
                           !.content.length = MAX_FILE_SIZE]),
        Some([plain EXCEPT !.size = None]),
        Some([plain EXCEPT !.size = None, !.content.length = MAX_FILE_SIZE + 1]),
        Some([plain EXCEPT !.read = Some("timeout")]),
        Some([plain EXCEPT !.read = Some("error")]),
        Some([plain EXCEPT !.content.signature = "D0CF", !.content.workbook = None]),
        Some([plain EXCEPT !.content.signature = "%PDF", !.content.workbook = None]),
        Some([plain EXCEPT !.content.workbook = None])}

\* the names of the sheets of an upload that was parsed
SheetNames(file) ==
    IF file = None THEN {}
    ELSE IF ValueOf(file).content.workbook = None THEN {}
    ELSE Range(sheetnames(ValueOf(ValueOf(file).content.workbook)))

\* the comparison is served
CompareExcelFiles(file1, file2, common_order, only1_order, only2_order) ==
    Served([op |-> "compare_excel_files", file1 |-> file1, file2 |-> file2],
           LET out == compare_excel_files(file1, file2, common_order, only1_order,
                                          only2_order)
           IN [log |-> <<>>, validated |-> {}, rejected |-> {}, resp |-> out.resp,
               loaded |-> out.loaded])

\* two sample uploads are compared; the sets of sheet names are iterated in
\* any order
CompareRequest ==
    /\ pc = "idle"
    /\ \E file1 \in UploadSamples, file2 \in UploadSamples :
          \E common_order \in Orders(SheetNames(file1) \cap SheetNames(file2)),
             only1_order \in Orders(SheetNames(file1) \ SheetNames(file2)),
             only2_order \in Orders(SheetNames(file2) \ SheetNames(file1)) :
             CompareExcelFiles(file1, file2, common_order, only1_order, only2_order)

\* a single-sheet workbook is compared with a copy in which one cell was
\* rewritten, in either order
CompareEditedRequest ==
    /\ pc = "idle"
    /\ \E base \in SheetSamples("Sheet1"), pos \in EditPositions,
          value \in EditValues, swapped \in BOOLEAN :
          LET copy == WithCell(base, pos, value)
              file1 == Upload(<<"a", ".", "xlsx">>, <<IF swapped THEN copy ELSE base>>)
              file2 == Upload(<<"b", ".", "xlsx">>, <<IF swapped THEN base ELSE copy>>)
          IN CompareExcelFiles(file1, file2, <<"Sheet1">>, <<>>, <<>>)

\* two workbooks of many cells are compared
CompareDenseRequest ==
    /\ pc = "idle"
    /\ \E workbook1 \in DenseWorkbooks({"a"}), workbook2 \in DenseWorkbooks({"a", "b"}) :
          CompareExcelFiles(Upload(<<"a", ".", "xlsx">>, workbook1),
                            Upload(<<"b", ".", "xlsx">>, workbook2),
                            <<"X", "Y">>, <<>>, <<>>)

Next ==
    \/ SqlSweepRequest
    \/ FilterSweepRequest
    \/ ChartSweepRequest
    \/ ExecuteQueryRequest
    \/ FilteredQueryRequest_
    \/ ExportRequest_
    \/ WidgetDataRequest
    \/ KpisRequest
    \/ CompareRequest
    \/ CompareEditedRequest
    \/ CompareDenseRequest
    \/ Respond

Spec == Init /\ [][Next]_vars

-----------------------------------------------------------------------------
(* The import, request after request into one table *)

\* the rows the table of the import holds at most
MaxStored == 3

\* the rows of the files: two rows whose insert is committed, two whose insert
\* raises
ImportRows ==
    {[values |-> <<Num(1), StrVal(<<"a">>)>>, raises |-> None],
     [values |-> <<Num(2), StrVal(<<"b">>)>>, raises |-> None],
     [values |-> <<Num(1), StrVal(<<"a">>)>>, raises |-> Some("ORA-00001")],
     [values |-> <<Num(3), Null>>, raises |-> Some("ORA-01400")]}

\* the files: of no, one and two rows, of an unknown column, unreadable, and
\* of a type that is not read
ImportFiles ==
    {[filename |-> <<"data", ".", "csv">>,
      frame |-> Some([columns |-> <<"ID", "Name">>, rows |-> rows])] :
        rows \in {<<>>} \cup {<<r>> : r \in ImportRows}
                 \cup {<<r1, r2>> : r1 \in ImportRows, r2 \in ImportRows}}
    \cup {[filename |-> <<"data", ".", "XLSX">>,
           frame |-> Some([columns |-> <<"id", "price">>,
                           rows |-> <<[values |-> <<Num(1), Num(2)>>, raises |-> None]>>])],
          [filename |-> <<"data", ".", "xlsx">>, frame |-> None],
          [filename |-> <<"data", ".", "pdf">>,
           frame |-> Some([columns |-> <<"id">>,
                           rows |-> <<[values |-> <<Num(1)>>, raises |-> None]>>])]}

\* the import is served
ImportReportData(lookup, mode, file, user_role) ==
    Served([op |-> "import_report_data", lookup |-> lookup, mode |-> mode,
            file |-> file, user_role |-> user_role],
           LET out == import_report_data(lookup, mode, file, user_role, target_table)
           IN [log |-> <<>>, validated |-> {}, rejected |-> {}, resp |-> out.resp,
               target_table |-> out.target_table])

\* a file is imported into the table
ImportRequest ==
    /\ pc = "idle"
    /\ \E lookup \in {"found", "missing", "error"},
          mode \in ImportModes \cup {"replace"}, file \in ImportFiles,
          user_role \in {<<"admin">>, <<"USER">>} :
          /\ file.frame # None
             => Len(target_table) + Len(ValueOf(file.frame).rows) <= MaxStored
          /\ ImportReportData(lookup, mode, file, user_role)

ImportNext ==
    \/ ImportRequest
    \/ Respond

ImportSpec == Init /\ [][ImportNext]_vars

-----------------------------------------------------------------------------
(* The middleware, request after request *)

\* the last second of the clock
MaxClock == 700

\* the seconds between two readings of the clock
TickSeconds == 100

\* the requests: answered by the application with 200, 401, 403 and 500, a
\* failed login, a request the application raises on, a preflight, and a
\* request that the validation refuses
RequestSamples ==
    {[ip |-> ip, method |-> "GET", path |-> <<"/api/query">>, suspicious |-> FALSE,
      status |-> status, raises |-> FALSE] : ip \in Ips, status \in {200, 401, 403, 500}}
    \cup {[ip |-> ip, method |-> "GET", path |-> <<"/api/query">>,
           suspicious |-> FALSE, status |-> 500, raises |-> TRUE] : ip \in Ips}
    \cup {[ip |-> ip, method |-> "POST", path |-> <<"/Auth/Login">>,
           suspicious |-> FALSE, status |-> 401, raises |-> FALSE] : ip \in Ips}
    \cup {[ip |-> ip, method |-> "OPTIONS", path |-> <<"/api/query">>,
           suspicious |-> FALSE, status |-> 200, raises |-> FALSE] : ip \in Ips}
    \cup {[ip |-> ip, method |-> "GET", path |-> <<"/api/", "../", "etc">>,
           suspicious |-> TRUE, status |-> 200, raises |-> FALSE] : ip \in Ips}

\* a request goes through the middleware
Dispatch ==
    \E request \in RequestSamples :
       LET out == dispatch(request)
           ip == request.ip
           expired == ip \in DOMAIN blocked_ips /\ ~(clock < blocked_ips[ip])
           since == IF expired THEN 0 ELSE streak[ip]
       IN /\ req' = [op |-> "dispatch", request |-> request]
          /\ resp' = out.resp
          /\ request_counts' = out.request_counts
          /\ failed_attempts' = out.failed_attempts
          /\ blocked_ips' = out.blocked_ips
          /\ streak' = [streak EXCEPT ![ip] =
                           IF out.resp.kind # "Response" THEN since
                           ELSE IF request.status \notin {401, 403} THEN 0
                           ELSE IF Lower(request.path[1]) = "/auth/login" THEN since
                           ELSE since + 1]
          /\ UNCHANGED <<pc, executed, validated, rejected, loaded, target_table, clock>>

\* time passes
Tick ==
    /\ clock + TickSeconds <= MaxClock
    /\ clock' = clock + TickSeconds
    /\ UNCHANGED <<pc, req, executed, validated, rejected, resp, loaded, target_table,
                   request_counts, failed_attempts, blocked_ips, streak>>

MiddlewareNext ==
    \/ Dispatch
    \/ Tick

MiddlewareSpec == Init /\ [][MiddlewareNext]_vars

-----------------------------------------------------------------------------
(* Properties *)

\* the statements of the request that were built from query SQL (all but the
\* lookups on the application's own tables)
QueryStatements == {i \in 1..Len(executed) : executed[i].kind # "lookup"}

\* the request ran a stored query (it named one and the lookup found it)
RanStoredQuery ==
    /\ pc = "done"
    /\ req.op \in {"execute_query", "execute_filtered_query", "export_query_data",
                   "get_widget_data"}
    /\ req.row # None
    /\ (req.op = "get_widget_data" \/ TruthyInt(req.request.query_id))

\* C1: every SQL text handed to the database executor on behalf of a stored
\* or ad-hoc query is a text the validator accepts: none holds a statement
\* separator or a DDL/DML keyword, however the query was stored.
C1_ExecutedSqlIsSafe ==
    \A i \in QueryStatements : is_safe_sql(executed[i].base)

\* C2: a non-admin caller whose role, trimmed and upper-cased, is not in the
\* non-empty role set of a stored query never gets that query's SQL executed.
C2_UnassignedRoleNeverExecutes ==
    (/\ RanStoredQuery
     /\ ~is_admin(req.user_role)
     /\ assigned_roles(ValueOf(req.row).role) # {}
     /\ UpperText(Strip(req.user_role)) \notin assigned_roles(ValueOf(req.row).role))
    => QueryStatements = {}

\* C3: when the validator rejects the SQL of a request, the request fails and
\* no page, count or structure statement built from that SQL is executed.
C3_RejectedSqlNeverExecuted ==
    (pc = "done" /\ rejected # {})
    => /\ ~resp.success
       /\ resp.data = None
       /\ QueryStatements = {}

\* C3 witness: a filtered request on a stored query whose SQL was rejected
C3_Witness ==
    /\ pc = "done"
    /\ req.op = "execute_filtered_query"
    /\ rejected = {<<"select", " ", "x", ";", " ", "drop", " ", "x">>}
    /\ resp.kind = "QueryResult"
    /\ executed = <<LookupStmt, LookupStmt>>

\* the texts the validator was handed while serving the request
HandedToValidator == validated \cup rejected

\* a text with one trailing statement separator removed
DropOneSeparator(s) ==
    IF s # <<>> /\ s[Len(s)] = ";" THEN SubSeq(s, 1, Len(s) - 1) ELSE s

\* C4: every SQL text that does not begin with select (case-insensitively,
\* after trimming whitespace and removing one trailing separator) is rejected
\* by the validator.
C4_NonSelectRejected ==
    \A t \in HandedToValidator :
        ~StartsWithSelect(LowerText(DropOneSeparator(Strip(t)))) => t \in rejected

\* C4 witness: a text that holds select but does not begin with it, and
\* nothing else that is forbidden, was rejected
C4_Witness ==
    /\ pc = "done"
    /\ req.op = "execute_query"
    /\ rejected = {<<"x", "select">>}

\* the DDL/DML verbs
DdlDmlVerbs ==
    {"insert", "update", "delete", "drop", "truncate", "alter", "create",
     "grant", "revoke"}

\* the verb occurs in the text as a whole word
WholeWord(s, verb) ==
    \E i \in 1..Len(s) :
        /\ Lower(s[i]) = verb
        /\ (i = 1 \/ ~IsWordToken(s[i - 1]))
        /\ (i = Len(s) \/ ~IsWordToken(s[i + 1]))

\* the text holds a statement separator or a DDL/DML verb as a whole word
HoldsSeparatorOrVerb(s) ==
    Has(s, ";") \/ \E verb \in DdlDmlVerbs : WholeWord(s, verb)

\* the request went down a query-execution path as far as the validator
ReachedValidation ==
    /\ pc = "done"
    /\ req.op \in {"execute_query", "execute_filtered_query"}
    /\ HandedToValidator # {}

\* the SQL text of the request: of the stored query it names, or the ad-hoc text
RequestSql ==
    IF TruthyInt(req.request.query_id) THEN ValueOf(req.row).sql_query
    ELSE ValueOf(req.request.sql_query)

\* C5 as claimed: a text that still holds a separator or a DDL/DML verb after
\* trimming and the removal of a single trailing separator is rejected on the
\* query-execution paths.
C5_DirtyAfterOneSeparatorRejected ==
    (ReachedValidation /\ HoldsSeparatorOrVerb(DropOneSeparator(Strip(RequestSql))))
    => (validated = {} /\ QueryStatements = {})

\* C5 as amended: a text that still holds a separator or a DDL/DML verb after
\* trimming and the removal of all its trailing separators is rejected on the
\* query-execution paths, even if it begins with select.
C5_DirtyAfterSeparatorsRejected ==
    (ReachedValidation /\ HoldsSeparatorOrVerb(RStripSemi(Strip(RequestSql))))
    => (validated = {} /\ QueryStatements = {})

\* C5 witness: a stored text that begins with select, holds a verb and ends
\* with a separator was rejected
C5_Witness ==
    /\ ReachedValidation
    /\ TruthyInt(req.request.query_id)
    /\ RequestSql = <<"select", " ", "Update", ";">>
    /\ rejected = {<<"select", " ", "Update">>}
    /\ QueryStatements = {}

\* the request was served by one of the executing services (table, chart or
\* filtered path)
ServedByDataService ==
    /\ pc = "done"
    /\ req.op \in {"execute_query", "execute_filtered_query", "get_widget_data"}
    /\ resp.kind = "QueryResult"

\* C6: every QueryResult of the executing services is either a success with
\* data (TableData or ChartData) and no error message, or a failure with an
\* error message and no data; never both, never neither.
C6_SuccessXorError ==
    ServedByDataService
    => \/ /\ resp.success
          /\ resp.data # None
          /\ ValueOf(resp.data).type \in {"TableData", "ChartData"}
          /\ resp.error = None
       \/ /\ ~resp.success
          /\ resp.data = None
          /\ resp.error # None

\* C6 witness: a table request whose count statement raised a database error
\* after the page had been read returned a failure
C6_Witness ==
    /\ ServedByDataService
    /\ req.op = "execute_query"
    /\ \E i \in QueryStatements :
          executed[i].kind = "count" /\ executed[i].outcome = "DatabaseError"
    /\ ~resp.success
    /\ resp.error = Some(MsgGeneric)

\* the four fixed messages of a database error
DatabaseErrorMessages == {MsgSyntax, MsgTable, MsgColumn, MsgGeneric}

\* C7: when a statement of a query execution raises a database error and the
\* request fails, the error the caller receives is one of the four fixed
\* messages, never the text of the exception.
C7_DatabaseErrorIsTranslated ==
    (/\ ServedByDataService
     /\ \E i \in QueryStatements : executed[i].outcome = "DatabaseError"
     /\ ~resp.success)
    => resp.error \subseteq DatabaseErrorMessages

\* the timeout messages of the table and the chart service
TimeoutMessages ==
    {MsgTimeoutTable(t) : t \in {DefaultTimeout, 5}}
    \cup {MsgTimeoutChart(t) : t \in {DefaultTimeout, 5}}

\* C8: when the statement that executes the query (the page or the direct
\* statement) times out, the request fails with the timeout message, which is
\* none of the four database-error messages, and no statement that timed out
\* is executed again in the request.
C8_TimeoutIsReported ==
    (/\ ServedByDataService
     /\ \E i \in QueryStatements :
           executed[i].kind \in {"page", "direct"}
           /\ executed[i].outcome = "TimeoutError")
    => /\ ~resp.success
       /\ resp.error # None
       /\ resp.error \subseteq TimeoutMessages
       /\ resp.error \cap DatabaseErrorMessages = {}
       /\ \A i, j \in QueryStatements :
             (i < j /\ executed[i].outcome = "TimeoutError")
             => [executed[j] EXCEPT !.outcome = "TimeoutError"] # executed[i]

\* the request paged a table: limit L, offset O, N rows in the source
PagedTable ==
    /\ pc = "done"
    /\ req.op \in {"execute_query", "execute_filtered_query"}
    /\ resp.kind = "QueryResult"
    /\ resp.success
    /\ ValueOf(resp.data).type = "TableData"

\* C9: for limit L >= 0, offset O >= 0 and a source of N >= L + O rows, the
\* page holds exactly the L rows at the 0-indexed positions O .. O+L-1 of the
\* source, and the total the count statement returned is N whatever L and O.
C9_PageAndCount ==
    PagedTable =>
      LET L == ValueOf(req.request.limit)
          O == ValueOf(req.request.offset)
          N == Len(req.src.rows)
          table == ValueOf(resp.data)
      IN (/\ L >= 0
          /\ O >= 0
          /\ N >= L + O
          /\ \A i \in QueryStatements :
                executed[i].kind = "count" => executed[i].outcome = "ok")
         => /\ Len(table.data) = L
            /\ table.data = [k \in 1..L |-> req.src.rows[O + k]]
            /\ table.total_count = N

\* C9 witness: limit 2 and offset 1 on a source of 3 rows gave rows 2 and 3
C9_Witness ==
    /\ PagedTable
    /\ req.request.limit = Some(2)
    /\ req.request.offset = Some(1)
    /\ Len(req.src.rows) = 3
    /\ ValueOf(resp.data).data = <<<<Num(2)>>, <<Num(3)>>>>
    /\ ValueOf(resp.data).total_count = 3

\* C10: the row bounds of every paged query that reaches the executor are
\* non-negative integers.
C10_PageBoundsNonNegative ==
    \A i \in QueryStatements :
        executed[i].kind = "page" => (executed[i].hi >= 0 /\ executed[i].lo >= 0)

\* the names of the row-number column of the pagination wrapper
RowNumberColumns == {"RNUM", "rnum"}

\* C11: the row-number column of the pagination wrapper is never among the
\* columns of the TableData a table or filtered request returns, whatever the
\* page holds, also when the page is empty and the header lookup fails.
C11_RowNumberColumnStripped ==
    PagedTable => Range(ValueOf(resp.data).columns) \cap RowNumberColumns = {}

\* the page statement of the request returned and its page holds no row
EmptyPage ==
    /\ pc = "done"
    /\ req.op \in {"execute_query", "execute_filtered_query"}
    /\ \E i \in QueryStatements :
          /\ executed[i].kind = "page"
          /\ executed[i].outcome = "ok"
          /\ paginated_query(req.src, executed[i].hi, executed[i].lo).rows = <<>>

\* the structure statements of the request
StructureStatements == {i \in QueryStatements : executed[i].kind = "structure"}

\* the count statement of the request did not raise a database error
CountDidNotFail ==
    \A i \in QueryStatements :
        executed[i].kind = "count" => executed[i].outcome \in {"ok", "TimeoutError"}

\* C12: when the page statement returns zero rows, the zero-row variant of
\* the same query is executed once for the headers; the request succeeds with
\* an empty row matrix whether the variant returns or raises, and when the
\* variant returns at least one column the columns of the result are the
\* variant's (stated for requests whose count statement did not fail).
C12_EmptyPageTakesHeadersOfVariant ==
    (EmptyPage /\ CountDidNotFail)
    => /\ Cardinality(StructureStatements) = 1
       /\ \A i \in StructureStatements :
             \E j \in QueryStatements :
                 executed[j].kind = "page" /\ executed[j].base = executed[i].base
       /\ resp.kind = "QueryResult"
       /\ resp.success
       /\ ValueOf(resp.data).type = "TableData"
       /\ ValueOf(resp.data).data = <<>>
       /\ \A i \in StructureStatements :
             (executed[i].outcome = "ok" /\ Len(structure_query(req.src).cols) > 0)
             => ValueOf(resp.data).columns = structure_query(req.src).cols

\* C12 witness: a filtered request whose offset lies beyond the rows of the
\* source got the headers of the variant and no row
C12_Witness ==
    /\ EmptyPage
    /\ req.op = "execute_filtered_query"
    /\ Len(req.src.rows) = 1
    /\ req.request.offset = Some(1)
    /\ \A i \in StructureStatements : executed[i].outcome = "ok"
    /\ resp.success
    /\ ValueOf(resp.data).columns = <<"ID">>
    /\ ValueOf(resp.data).data = <<>>

\* C12 witness of the failing variant: the variant raised and the request
\* succeeded all the same
C12_VariantFailed ==
    /\ EmptyPage
    /\ \E i \in StructureStatements : executed[i].outcome = "DatabaseError"
    /\ resp.success

\* the request reached the filter compiler with a filter that holds conditions
CompiledFilter ==
    /\ pc = "done"
    /\ req.op = "execute_filtered_query"
    /\ validated # {}
    /\ req.request.filters # None
    /\ ValueOf(req.request.filters).conditions # <<>>

\* the conditions of the filter of the request
RequestConditions == ValueOf(req.request.filters).conditions

\* the conditions of the request as the filter compiler renders them
RenderedConditions ==
    Flatten([i \in 1..Len(RequestConditions) |-> render_condition(RequestConditions[i])])

\* the count statements of the request: their text is the filtered query
CountStatements == {i \in QueryStatements : executed[i].kind = "count"}

\* the base query with the group of conditions appended after the keyword
GroupAppended(base_query, keyword) ==
    base_query \o <<" ", keyword, " ", "(">>
               \o JoinTexts(RenderedConditions,
                            <<" ", ValueOf(req.request.filters).logic, " ">>)
               \o <<")">>

\* C13: with at least one rendered condition the filter compiler appends the
\* conditions, joined by the logic word, as one parenthesised group: after AND
\* when the base query holds the characters WHERE in any case, after WHERE
\* otherwise; the filter role eq ADMIN on SELECT * FROM app_users gives
\* SELECT * FROM app_users WHERE (role = 'ADMIN').
C13_ConditionsAppendedAsGroup ==
    (CompiledFilter /\ RenderedConditions # <<>>)
    => \A i \in CountStatements :
          /\ executed[i].sql =
                GroupAppended(executed[i].base,
                              IF HasWhere(executed[i].base) THEN "AND" ELSE "WHERE")
          /\ (/\ executed[i].base = <<"SELECT", " ", "*", " ", "FROM", " ", "app_users">>
              /\ RequestConditions =
                    <<[column |-> <<"role">>, operator |-> "eq",
                       value |-> StrVal(<<"ADMIN">>)]>>
              /\ ValueOf(req.request.filters).logic = "AND")
             => executed[i].sql =
                   <<"SELECT", " ", "*", " ", "FROM", " ", "app_users", " ", "WHERE",
                     " ", "(", "role", " ", "=", " ", "'", "ADMIN", "'", ")">>

\* the part of the filtered query that follows the base query
FilterClause(i) == SubSeq(executed[i].sql, Len(executed[i].base) + 1, Len(executed[i].sql))

RECURSIVE LexStrings(_, _, _, _)
\* the string literals of a SQL text as a SQL lexer reads them from position
\* i on: a literal runs from a quote to the next quote that is not doubled,
\* and a doubled quote inside stands for one quote.  inside tells whether
\* position i lies in a literal, cur is what has been read of it; a literal
\* the text leaves open is marked by the entry <<"unterminated">>.
LexStrings(s, i, inside, cur) ==
    IF i > Len(s) THEN (IF inside THEN <<<<"unterminated">>>> ELSE <<>>)
    ELSE IF ~inside
    THEN LexStrings(s, i + 1, s[i] = "'", <<>>)
    ELSE IF s[i] = "'" /\ i < Len(s) /\ s[i + 1] = "'"
    THEN LexStrings(s, i + 2, TRUE, cur \o <<"'">>)
    ELSE IF s[i] = "'"
    THEN <<cur>> \o LexStrings(s, i + 1, FALSE, <<>>)
    ELSE LexStrings(s, i + 1, TRUE, cur \o <<s[i]>>)

RECURSIVE OutsideStrings(_, _, _)
\* the tokens of a SQL text that lie outside its string literals
OutsideStrings(s, i, inside) ==
    IF i > Len(s) THEN <<>>
    ELSE IF ~inside
    THEN (IF s[i] = "'" THEN <<>> ELSE <<s[i]>>) \o OutsideStrings(s, i + 1, s[i] = "'")
    ELSE IF s[i] = "'" /\ i < Len(s) /\ s[i + 1] = "'"
    THEN OutsideStrings(s, i + 2, TRUE)
    ELSE OutsideStrings(s, i + 1, s[i] # "'")

\* the supported operators
SupportedOperators == {"eq", "ne", "gt", "lt", "gte", "lte", "like", "in"}

\* the condition is one the filter compiler renders
IsRendered(c) ==
    /\ Lower(c.operator) \in SupportedOperators
    /\ Lower(c.operator) = "in" => c.value.t = "list"

\* the values of a rendered condition, in the order of their literals
ValuesOf(c) ==
    IF Lower(c.operator) = "in" THEN c.value.v ELSE <<c.value>>

\* the string literals a reader of the condition must find: the text of every
\* value that is not a number, between two '%' for like
ExpectedStrings(c) ==
    LET texts == [k \in 1..Len(ValuesOf(c)) |-> PyStr(ValuesOf(c)[k])]
        strings == SelectSeq([k \in 1..Len(ValuesOf(c)) |->
                                 IF ValuesOf(c)[k].t = "num" THEN <<"number">>
                                 ELSE <<"string">> \o texts[k]],
                             LAMBDA e : e[1] = "string")
        plain == [k \in 1..Len(strings) |-> Tail(strings[k])]
    IN IF ~IsRendered(c) THEN <<>>
       ELSE IF Lower(c.operator) = "like" THEN <<<<"%">>>> \o plain \o <<<<"%">>>>
       ELSE plain

\* the numbers a reader of the condition must find outside the literals
ExpectedNumbers(c) ==
    IF ~IsRendered(c) THEN <<>>
    ELSE Flatten(SelectSeq([k \in 1..Len(ValuesOf(c)) |->
                               IF ValuesOf(c)[k].t = "num" THEN ValuesOf(c)[k].v
                               ELSE <<>>],
                           LAMBDA e : e # <<>>))

\* the digits of the numbers sent as filter values
NumberTokens == {"1", "2", "5"}

\* C14: in the conditions the filter compiler appends to the query, as a SQL
\* reader sees them, the numbers sent stand outside the literals as they were
\* sent, and every other value is one string literal whose content is the
\* text of the value: no value ends its literal early or leaves it open, for
\* the elements of an in-list as for single values.
C14_ValuesAreClosedLiterals ==
    CompiledFilter
    => \A i \in CountStatements :
          /\ LexStrings(FilterClause(i), 1, FALSE, <<>>) =
                Flatten([k \in 1..Len(RequestConditions) |->
                            ExpectedStrings(RequestConditions[k])])
          /\ SelectSeq(OutsideStrings(FilterClause(i), 1, FALSE),
                       LAMBDA t : t \in NumberTokens) =
                Flatten([k \in 1..Len(RequestConditions) |->
                            ExpectedNumbers(RequestConditions[k])])

\* C14 witness: a value made to close its literal and an in-list whose
\* elements hold a quote and a comma were rendered and executed
C14_Witness ==
    /\ CompiledFilter
    /\ RequestConditions =
          <<[column |-> <<"name">>, operator |-> "ne",
             value |-> StrVal(<<"'", " ", "OR", " ", "'", "1", "'", "=", "'", "1">>)],
            [column |-> <<"id">>, operator |-> "in",
             value |-> ListVal(<<StrVal(<<"a", "'">>),
                                 StrVal(<<"b", ",", " ", "c">>)>>)]>>
    /\ \E i \in CountStatements :
          /\ executed[i].outcome = "ok"
          /\ LexStrings(FilterClause(i), 1, FALSE, <<>>) =
                <<<<"'", " ", "OR", " ", "'", "1", "'", "=", "'", "1">>,
                  <<"a", "'">>, <<"b", ",", " ", "c">>>>
    /\ resp.success

\* the condition holds an unsupported operator, or in with a value that is
\* not a sequence
Malformed(c) == ~IsRendered(c)

\* C15: a filtered request whose filter holds a condition with an operator
\* outside eq, ne, gt, lt, gte, lte, like, in, or an in condition whose value
\* is not a sequence, fails with an error for the caller and no query is
\* executed for it.
C15_MalformedFilterRejected ==
    (CompiledFilter /\ \E k \in 1..Len(RequestConditions) : Malformed(RequestConditions[k]))
    => /\ ~resp.success
       /\ resp.error # None
       /\ QueryStatements = {}

\* the page statements of the request
PageStatements == {i \in QueryStatements : executed[i].kind = "page"}

\* the text the page statement i holds after the filtered query
SortClause(i) ==
    LET filtered == executed[CHOOSE j \in CountStatements : TRUE].sql
    IN SubSeq(executed[i].sql, Len(filtered) + 1, Len(executed[i].sql))

\* C16: whatever sort_column and sort_direction a filtered request holds, the
\* text in the ORDER BY position of its page statement is made of the word
\* tokens (alphanumeric and underscore characters) of sort_column only,
\* followed by exactly ASC or DESC; without a sort column nothing is appended.
C16_OrderByIsSanitised ==
    (pc = "done" /\ req.op = "execute_filtered_query")
    => \A i \in PageStatements :
          LET clause == SortClause(i)
              column == SubSeq(clause, 6, Len(clause) - 2)
              sent == ValueOf(req.request.sort_column)
          IN IF Truthy(req.request.sort_column)
             THEN /\ Len(clause) >= 7
                  /\ SubSeq(clause, 1, 5) = <<" ", "ORDER", " ", "BY", " ">>
                  /\ clause[Len(clause) - 1] = " "
                  /\ clause[Len(clause)] \in {"ASC", "DESC"}
                  /\ \A k \in 1..Len(column) :
                        IsWordToken(column[k]) /\ Has(sent, column[k])
                  /\ Len(column) = Cardinality({k \in 1..Len(sent) : IsWordToken(sent[k])})
             ELSE clause = <<>>

\* C16 witness: a sort column and a direction that carry a second statement
\* reached the page statement as three identifiers and ASC
C16_Witness ==
    /\ pc = "done"
    /\ req.op = "execute_filtered_query"
    /\ req.request.sort_column = Some(<<"first_name", ";", "drop", " ", "x", "--">>)
    /\ req.request.sort_direction = Some(<<"DESC", ";", "drop">>)
    /\ \E i \in PageStatements :
          SortClause(i) = <<" ", "ORDER", " ", "BY", " ", "first_name", "drop", "x",
                            " ", "ASC">>

\* the request was answered by the chart service: the widget route, or the
\* execution of a stored query with a chart kind
ChartServed ==
    /\ pc = "done"
    /\ req.op \in {"get_widget_data", "execute_query"}
    /\ req.row # None
    /\ resp.kind = "QueryResult"
    /\ \E i \in QueryStatements : executed[i].kind = "direct"

\* the direct statement of the request returned
DirectReturned ==
    \A i \in QueryStatements : executed[i].kind = "direct" => executed[i].outcome = "ok"

\* the chart of a successful response
Chart == ValueOf(resp.data)

\* the number a value stands for, as the text of the float of it: a number as
\* it is, a text by the number it spells (surrounding whitespace aside);
\* <<>> when the value is no number
AsNumber(value) ==
    CASE value.t = "num" -> value.v \o <<".", "0">>
      [] value.t = "float" -> value.v
      [] value.t = "str" /\ SelectSeq(value.v, LAMBDA t : t # " ") \in NumericTexts ->
            SelectSeq(value.v, LAMBDA t : t # " ") \o <<".", "0">>
      [] OTHER -> <<>>

\* C17: KPI shaping of a non-empty result yields a chart with the one label
\* KPI and one series that holds one value: the first column of the first
\* row as a float, or 0 when that value is no number, never an error; the
\* result [[42]] gives the series [42.0].
C17_KpiIsOnePoint ==
    (/\ ChartServed
     /\ ValueOf(req.row).chart_type = Some("kpi")
     /\ DirectReturned
     /\ req.src.rows # <<>>)
    => /\ resp.success
       /\ resp.error = None
       /\ Chart.type = "ChartData"
       /\ Chart.labels = <<"KPI">>
       /\ Len(Chart.datasets) = 1
       /\ Len(Chart.datasets[1].data) = 1
       /\ LET first_val == req.src.rows[1][1]
              point == Chart.datasets[1].data[1]
          IN /\ point.t \in {"num", "float"}
             /\ AsNumber(first_val) # <<>> =>
                   (point.t = "float" /\ point.v = AsNumber(first_val))
             /\ AsNumber(first_val) = <<>> => point = Num(0)
             /\ req.src.rows = <<<<Num(42)>>>> => point.v = <<"42", ".", "0">>

\* C17 witness: the KPI over the result [["n/a"], [1]] is 0
C17_Witness ==
    /\ ChartServed
    /\ ValueOf(req.row).chart_type = Some("kpi")
    /\ req.src.rows = <<<<StrVal(<<"n/a">>)>>, <<Num(1)>>>>
    /\ resp.success
    /\ Chart.datasets = <<[data |-> <<Num(0)>>]>>

\* the KPI over the result [[42]] is [42.0]
KpiOfFortyTwo ==
    /\ ChartServed
    /\ ValueOf(req.row).chart_type = Some("kpi")
    /\ req.src.rows = <<<<Num(42)>>>>
    /\ Chart.datasets = <<[data |-> <<[t |-> "float", v |-> <<"42", ".", "0">>]>>]>>

\* C18: the chart service never answers with an empty series: an empty
\* result set is a failure with the message of no data, and every successful
\* answer, for every chart kind and every shape of a non-empty result, holds
\* at least one series and no series without a data point.
C18_NoEmptySeries ==
    (ChartServed /\ DirectReturned)
    => IF req.src.rows = <<>>
       THEN /\ ~resp.success
            /\ resp.error = Some(MsgNoData)
       ELSE resp.success
            => /\ Len(Chart.datasets) >= 1
               /\ \A k \in 1..Len(Chart.datasets) : Len(Chart.datasets[k].data) >= 1

\* both uploads of the comparison passed the checks made before parsing and
\* were parsed
Received(file) ==
    /\ file # None
    /\ validate_file_upload(ValueOf(file).filename)
    /\ ~(ValueOf(file).size # None /\ ValueOf(ValueOf(file).size) > MAX_FILE_SIZE)
    /\ ValueOf(file).read = None
    /\ ValueOf(file).content.signature \in ContainerSignatures
    /\ ValueOf(file).content.workbook # None

Compared ==
    /\ pc = "done"
    /\ req.op = "compare_excel_files"
    /\ Received(req.file1)
    /\ Received(req.file2)

\* the workbook of an upload
WorkbookOf(file) == ValueOf(ValueOf(file).content.workbook)

\* the results of the sheets in the response
SheetResults == ValueOf(resp.data).comparison_results

\* C19: when the two uploads of a comparison have the same bytes, the
\* response is a success whose outcome is success = true and holds, for every
\* sheet of the workbook, one result of status matched, whatever the number,
\* the names and the sizes of the sheets.
C19_SelfComparisonMatches ==
    (Compared /\ ValueOf(req.file1).content = ValueOf(req.file2).content)
        => /\ resp.success
           /\ ValueOf(resp.data).success
           /\ Len(SheetResults) = Len(WorkbookOf(req.file1))
           /\ \A k \in 1..Len(SheetResults) :
                 /\ SheetResults[k].status = "matched"
                 /\ SheetResults[k].sheet = WorkbookOf(req.file1)[k].title

\* the cells whose values, as strings, are not the same in the two sheets
DifferingCells(sheet1, sheet2) ==
    {p \in DOMAIN sheet1.cells \cup DOMAIN sheet2.cells :
        (IF cell(sheet1, p[1], p[2]) = Null THEN <<>> ELSE cell(sheet1, p[1], p[2]).v)
        # (IF cell(sheet2, p[1], p[2]) = Null THEN <<>> ELSE cell(sheet2, p[1], p[2]).v)}

RECURSIVE ColumnNumber(_)
\* the column that letters name: A is 1, Z is 26, AA is 27
ColumnNumber(letters) ==
    IF letters = <<>> THEN 0
    ELSE ColumnNumber(SubSeq(letters, 1, Len(letters) - 1)) * 26
         + (CHOOSE i \in 1..26 : Alphabet[i] = letters[Len(letters)])

\* address is the column letters of position p followed by its row number
Addresses(address, p) ==
    /\ Len(address) >= 2
    /\ address[Len(address)] = ToString(p[1])
    /\ \A i \in 1..(Len(address) - 1) : address[i] \in Range(Alphabet)
    /\ ColumnNumber(SubSeq(address, 1, Len(address) - 1)) = p[2]

\* the two uploads hold one sheet each, of the same name, and the sheets
\* differ in exactly one cell
OneCellApart ==
    /\ Compared
    /\ Len(WorkbookOf(req.file1)) = 1
    /\ Len(WorkbookOf(req.file2)) = 1
    /\ WorkbookOf(req.file1)[1].title = WorkbookOf(req.file2)[1].title
    /\ Cardinality(DifferingCells(WorkbookOf(req.file1)[1],
                                  WorkbookOf(req.file2)[1])) = 1

\* C20: when two single-sheet workbooks whose sheets have the same name
\* differ in exactly one cell, the result of the sheet has status not matched
\* and a list of exactly one difference, whose address is the column letters
\* and the row number of that cell, wherever in the sheet the cell lies.
C20_OneDifferenceAtItsAddress ==
    OneCellApart
        => /\ resp.success
           /\ Len(SheetResults) = 1
           /\ SheetResults[1].status = "not matched"
           /\ Len(SheetResults[1].differences) = 1
           /\ \A p \in DifferingCells(WorkbookOf(req.file1)[1],
                                      WorkbookOf(req.file2)[1]) :
                 Addresses(SheetResults[1].differences[1].cell_id, p)

\* a comparison of sheets that record their dimension and lie within the
\* rectangle compared in full reports the one differing cell at its address
OneDifferenceReported ==
    /\ OneCellApart
    /\ SheetResults[1].status = "not matched"
    /\ Len(SheetResults[1].differences) = 1
    /\ SheetResults[1].differences[1].cell_id = <<"A", "A", "1">>

\* the names of the sheets of an upload
NamesOf(file) == Range(sheetnames(WorkbookOf(file)))

\* the results of the sheet of a name
ResultsOf(name) == {k \in 1..Len(SheetResults) : SheetResults[k].sheet = name}

\* the first workbook holds the sheets X and Y, the second X and Z
SheetsXYandXZ ==
    /\ Compared
    /\ NamesOf(req.file1) = {"X", "Y"}
    /\ NamesOf(req.file2) = {"X", "Z"}

\* the sheets of both workbooks whose comparison raises: those of which one
\* workbook records no dimension
RaisingSheets ==
    {name \in NamesOf(req.file1) \cap NamesOf(req.file2) :
        \/ sheet_of(WorkbookOf(req.file1), name).extent = None
        \/ sheet_of(WorkbookOf(req.file2), name).extent = None}

C22_SheetSetDifferenceIsAnOutcome ==
    Compared
        => /\ resp.success
           /\ \A name \in NamesOf(req.file1) \ NamesOf(req.file2) :
                 \E k \in ResultsOf(name) :
                    SheetResults[k].status = "sheet_missing_in_file2"
           /\ \A name \in NamesOf(req.file2) \ NamesOf(req.file1) :
                 \E k \in ResultsOf(name) :
                    SheetResults[k].status = "sheet_missing_in_file1"

\* workbooks of one sheet each that share no name are answered with an outcome
DisjointSheetsOfEqualCount ==
    /\ Compared
    /\ NamesOf(req.file1) \cap NamesOf(req.file2) = {}
    /\ resp.success
    /\ ~ValueOf(resp.data).success

BothRead ==
    /\ pc = "done"
    /\ req.op = "compare_excel_files"
    /\ \A file \in {req.file1, req.file2} :
          /\ file # None
          /\ validate_file_upload(ValueOf(file).filename)
          /\ ~(ValueOf(file).size # None /\ ValueOf(ValueOf(file).size) > MAX_FILE_SIZE)
          /\ ValueOf(file).read = None

\* the bytes of the upload start as a zip or an OLE2 container does
Signed(file) == ValueOf(file).content.signature \in {"PK", "D0CF"}

\* the details of the errors of a failed and of a late read
ReadErrors ==
    {<<"Error reading uploaded files. Please ensure files are not corrupted.">>,
     <<"File reading timed out. Files may be too large or corrupted.">>}

\* C24: when an upload that was read does not start with the signature of a
\* spreadsheet container, no upload of the request is parsed and the request
\* is rejected with an error of its own, which is neither the error of a
\* failed read nor the error of a read that timed out.
C24_UnsignedUploadRejectedAsInvalid ==
    (BothRead /\ (~Signed(req.file1) \/ ~Signed(req.file2)))
        => /\ loaded = {}
           /\ resp.kind = "HTTPException"
           /\ resp.status = 400
           /\ resp.error # None
           /\ ValueOf(resp.error) \notin ReadErrors

\* an upload without the signature is never handed to the parser
UnsignedNeverLoaded ==
    (BothRead /\ (~Signed(req.file1) \/ ~Signed(req.file2))) => loaded = {}

\* the upload of a number
UploadOf(i) == IF i = 1 THEN ValueOf(req.file1) ELSE ValueOf(req.file2)

\* C25: in no comparison request is an upload of more than 50 MB handed to
\* the workbook parser, whether the upload comes with its size or without.
C25_OversizedUploadNeverParsed ==
    (pc = "done" /\ req.op = "compare_excel_files")
        => \A i \in loaded : UploadOf(i).content.length <= 50 * 1024 * 1024

\* an upload that comes with a size over the ceiling is refused unparsed
SizedOversizedRefused ==
    /\ pc = "done"
    /\ req.op = "compare_excel_files"
    /\ req.file1 # None
    /\ ValueOf(req.file1).size = Some(50 * 1024 * 1024 + 1)
    /\ resp.error = Some(<<"File1 too large. Maximum size is 50MB.">>)
    /\ loaded = {}

\* the sheets of both workbooks that record their dimension and of which every
\* cell is compared: their rectangle holds at most 1,000,000 cells
FullyCompared ==
    {name \in NamesOf(req.file1) \cap NamesOf(req.file2) :
        LET e1 == sheet_of(WorkbookOf(req.file1), name).extent
            e2 == sheet_of(WorkbookOf(req.file2), name).extent
        IN /\ e1 # None
           /\ e2 # None
           /\ \A r \in {ValueOf(e1).max_row, ValueOf(e2).max_row},
                 c \in {ValueOf(e1).max_column, ValueOf(e2).max_column} :
                 r * c <= 1000000}

\* the smaller of two numbers
Least(a, b) == IF a < b THEN a ELSE b

\* C26: no result of a sheet holds more than 1,000 differences, and the
\* limit is counted for each sheet on its own: a sheet of which every cell is
\* compared has as many differences as it has unequal cells, up to 1,000,
\* whatever the other sheets of the comparison hold.
C26_DifferencesCappedPerSheet ==
    (Compared /\ resp.success)
        => /\ \A k \in 1..Len(SheetResults) :
                 Len(SheetResults[k].differences) <= 1000
           /\ \A name \in FullyCompared :
                 \A k \in ResultsOf(name) :
                    Len(SheetResults[k].differences)
                        = Least(Cardinality(DifferingCells(
                                    sheet_of(WorkbookOf(req.file1), name),
                                    sheet_of(WorkbookOf(req.file2), name))), 1000)

\* C26 witness: both sheets of a comparison hold 1,100 unequal cells and
\* both results hold 1,000 differences
C26_Witness ==
    /\ Compared
    /\ resp.success
    /\ Len(SheetResults) = 2
    /\ \A k \in 1..2 :
          /\ Cardinality(DifferingCells(sheet_of(WorkbookOf(req.file1), SheetResults[k].sheet),
                                        sheet_of(WorkbookOf(req.file2), SheetResults[k].sheet)))
                = 1100
          /\ Len(SheetResults[k].differences) = 1000

\* a sheet of 1,100 unequal cells beside a sheet of two: 1,000 differences
\* and two
CappedBesideUncapped ==
    /\ Compared
    /\ resp.success
    /\ Len(SheetResults) = 2
    /\ Len(SheetResults[1].differences) = 1000
    /\ Len(SheetResults[2].differences) = 2

\* C27: in every outcome of a comparison each name of a sheet of either
\* workbook has exactly one result, total_sheets is the number of the
\* distinct names of the two workbooks, and matched_sheets is at most
\* total_sheets.
C27_OneResultPerSheet ==
    (Compared /\ resp.success)
        => /\ \A name \in NamesOf(req.file1) \cup NamesOf(req.file2) :
                 Cardinality(ResultsOf(name)) = 1
           /\ ValueOf(resp.data).total_sheets
                 = Cardinality(NamesOf(req.file1) \cup NamesOf(req.file2))
           /\ ValueOf(resp.data).matched_sheets <= ValueOf(resp.data).total_sheets

\* workbooks of different numbers of sheets: one result for each name
OneResultEach ==
    /\ Compared
    /\ resp.success
    /\ Len(WorkbookOf(req.file1)) # Len(WorkbookOf(req.file2))
    /\ ValueOf(resp.data).total_sheets = 2
    /\ Len(SheetResults) = 2

\* the request went through execute_query_for_table, its page statement
\* returned and its count statement raised
CountFailed ==
    /\ pc = "done"
    /\ req.op = "execute_query"
    /\ \E i \in QueryStatements :
          executed[i].kind = "page" /\ executed[i].outcome = "ok"
    /\ \E i \in QueryStatements :
          executed[i].kind = "count" /\ executed[i].outcome # "ok"

\* C28: in execute_query_for_table a count statement that fails never fails
\* a request whose page statement returned: the result is a success that
\* carries the page, with a total of the size of the page plus the offset
\* when the count timed out and of 0 on any other error of the count.
C28_CountFailureKeepsPage ==
    CountFailed
    => /\ resp.kind = "QueryResult"
       /\ resp.success
       /\ ValueOf(resp.data).type = "TableData"
       /\ \A i \in QueryStatements :
             executed[i].kind = "count"
             => ValueOf(resp.data).total_count
                   = IF executed[i].outcome = "TimeoutError"
                     THEN Len(ValueOf(resp.data).data) + ValueOf(req.request.offset)
                     ELSE 0

\* a count that timed out leaves the page with an estimated total
CountTimeoutEstimated ==
    /\ CountFailed
    /\ resp.success
    /\ Len(ValueOf(resp.data).data) = 2
    /\ ValueOf(req.request.offset) = 1
    /\ ValueOf(resp.data).total_count = 3


-----------------------------------------------------------------------------
(* The import, file after file *)

\* the import has answered with its result
Imported ==
    /\ pc = "done"
    /\ req.op = "import_report_data"
    /\ resp.kind = "APIResponse"
    /\ resp.data # None

\* the result of the import that has answered
ImportResult == ValueOf(resp.data)

\* C29: in abort_on_error mode the import is all-or-nothing: when an insert
\* of a row of the file fails, the table holds after the request the rows it
\* held before it, none of the file, and the result reports failure.
C29_AbortOnErrorIsAllOrNothing ==
    [][(/\ pc = "idle"
        /\ Imported'
        /\ req'.mode = "abort_on_error"
        /\ ImportResult'.failed_records > 0)
       => (target_table' = target_table /\ ~resp'.success)]_vars

\* an import in abort_on_error mode has reported a failed row and rows of the
\* file before that row are in the table
AbortLeavesEarlierRows ==
    /\ Imported
    /\ req.mode = "abort_on_error"
    /\ ImportResult.failed_records > 0
    /\ ~resp.success
    /\ ImportResult.inserted_records > 0
    /\ Len(target_table) >= ImportResult.inserted_records

\* an import in skip_failed mode has reported a failed row and inserted rows
SkipFailedLeavesRows ==
    /\ Imported
    /\ req.mode = "skip_failed"
    /\ ImportResult.failed_records > 0
    /\ resp.success
    /\ ImportResult.inserted_records > 0

\* an import in abort_on_error mode answers with failure whenever a row failed
AbortReportsFailure ==
    (Imported /\ req.mode = "abort_on_error" /\ ImportResult.failed_records > 0)
    => (~resp.success /\ ~ImportResult.success /\ ImportResult.failed_records = 1)


-----------------------------------------------------------------------------
(* The middleware, block after block *)

\* the address is blocked at this second
is_blocked(ip) == ip \in DOMAIN blocked_ips /\ clock < blocked_ips[ip]

\* C30: a step blocks an address only when streak, its 401 and 403 responses
\* outside /auth/login since its last other response or since its last block
\* was found expired, has reached max_failed_attempts; and a request of an
\* address whose block lasts is answered by the middleware, not by the handler.
C30_BlockOnlyAfterConsecutiveFailures ==
    [][\A ip \in Ips :
          /\ (/\ ip \in DOMAIN blocked_ips'
              /\ (ip \in DOMAIN blocked_ips => blocked_ips'[ip] # blocked_ips[ip]))
             => streak'[ip] >= max_failed_attempts
          /\ (clock' = clock /\ is_blocked(ip) /\ req'.request.ip = ip)
             => (resp'.kind = "JSONResponse" /\ failed_attempts' = failed_attempts)]_vars

\* a request of an address whose block lasts is answered by the middleware
BlockedNeverServed ==
    [][\A ip \in Ips :
          (clock' = clock /\ is_blocked(ip) /\ req'.request.ip = ip)
          => (resp'.kind = "JSONResponse" /\ failed_attempts' = failed_attempts
              /\ blocked_ips' = blocked_ips)]_vars

\* the first block of an address follows max_failed_attempts failing responses
FirstBlockAfterStreak ==
    \E ip \in Ips :
       /\ is_blocked(ip)
       /\ clock = 0
       /\ streak[ip] = max_failed_attempts
       /\ failed_attempts[ip] = max_failed_attempts

\* an address is blocked again by the one failing response after its block
\* expired
BlockedAgainByOneFailure ==
    \E ip \in Ips :
       /\ is_blocked(ip)
       /\ streak[ip] = 1
       /\ failed_attempts[ip] = max_failed_attempts + 1
       /\ resp.kind = "Response"
       /\ resp.status \in {401, 403}

====
